---- MODULE Spec2Model ----
(***************************************************************************)
(* Brontide (BOLT-8, Noise_XK_secp256k1_ChaChaPoly_SHA256) as implemented  *)
(* in brontide/src/machine: the three-act handshake of Machine and the     *)
(* record layer (write_message / read_message) over two CipherStates.      *)
(*                                                                         *)
(* Byte strings are sequences of runs [v, a, b]: bytes a..b of the value   *)
(* v.  SHA-256, HKDF, secp256k1 and ChaCha20-Poly1305 are the external     *)
(* crates the code calls; they are modelled as free (collision-free)       *)
(* constructors over byte strings.                                         *)
(***************************************************************************)
EXTENDS Integers, Sequences, FiniteSets, TLC

(***************************************************************************)
(* Byte strings                                                            *)
(***************************************************************************)
Run(v, a, b) == [v |-> v, a |-> a, b |-> b]

Blob(v, n) == IF n = 0 THEN <<>> ELSE <<Run(v, 1, n)>>

Byte(x) == Run(<<"byte", x>>, 1, 1)

Zeros(n) == Blob(<<"zero">>, n)

RunLen(r) == r.b - r.a + 1

RECURSIVE BLen(_)
BLen(bs) == IF bs = <<>> THEN 0 ELSE RunLen(Head(bs)) + BLen(Tail(bs))

RECURSIVE BTake(_, _)
BTake(bs, n) ==
    IF n = 0 \/ bs = <<>> THEN <<>>
    ELSE LET r == Head(bs) IN
         IF RunLen(r) <= n
         THEN <<r>> \o BTake(Tail(bs), n - RunLen(r))
         ELSE <<Run(r.v, r.a, r.a + n - 1)>>

RECURSIVE BDrop(_, _)
BDrop(bs, n) ==
    IF n = 0 \/ bs = <<>> THEN bs
    ELSE LET r == Head(bs) IN
         IF RunLen(r) <= n
         THEN BDrop(Tail(bs), n - RunLen(r))
         ELSE <<Run(r.v, r.a + n, r.b)>> \o Tail(bs)

BCat(x, y) ==
    IF x = <<>> THEN y
    ELSE IF y = <<>> THEN x
    ELSE LET l == x[Len(x)]
             f == y[1]
         IN  IF l.v = f.v /\ l.b + 1 = f.a
             THEN SubSeq(x, 1, Len(x) - 1) \o <<Run(l.v, l.a, f.b)>> \o Tail(y)
             ELSE x \o y

BSlice(bs, from, to) == BTake(BDrop(bs, from), to - from)

(***************************************************************************)
(* Program constants                                                       *)
(***************************************************************************)
MAC_SIZE == 16

LENGTH_HEADER_SIZE == 2

KEY_ROTATION_INTERVAL == 1000

U16_MAX == 65535

PUBLIC_KEY_SIZE == 33

ACT_ONE_SIZE == 1 + PUBLIC_KEY_SIZE + MAC_SIZE

ACT_THREE_SIZE == 1 + PUBLIC_KEY_SIZE + 2 * MAC_SIZE

PROTOCOL_NAME == Blob(<<"str", "Noise_XK_secp256k1_ChaChaPoly_SHA256">>, 36)

PROLOGUE == Blob(<<"str", "lightning">>, 9)

(***************************************************************************)
(* External primitives                                                     *)
(***************************************************************************)
Sha256(data) == Blob(<<"sha", data>>, 32)

HkdfExpand64(salt, ikm) == Blob(<<"hkdf", salt, ikm>>, 64)

PubOf(sk) == <<"pub", sk>>

Serialize(pk) == Blob(pk, PUBLIC_KEY_SIZE)

PointMul(pk, sk) == <<"pub", <<"mul", {pk[2], sk}>>>>

IsKeyBytes(bs) ==
    /\ Len(bs) = 1
    /\ bs[1].a = 1 /\ bs[1].b = PUBLIC_KEY_SIZE
    /\ bs[1].v[1] = "pub"

RECURSIVE Shr8(_, _)
Shr8(n, i) == IF i = 0 THEN n ELSE Shr8(n \div 256, i - 1)

LeByte(n, i) == Shr8(n, i) % 256

\* variant: the counter is not written into the nonce
EncodeNonce_fixed(n) == <<0, 0, 0, 0, 0, 0, 0, 0, 0, 0, 0, 0>>

EncodeNonce(n) ==
    <<0, 0, 0, 0, LeByte(n, 0), LeByte(n, 1), LeByte(n, 2), LeByte(n, 3),
      LeByte(n, 4), LeByte(n, 5), LeByte(n, 6), LeByte(n, 7)>>

AeadCipherText(key, nonce, pt) == Blob(<<"ct", key, nonce, pt>>, BLen(pt))

\* variant: the associated data is not authenticated
AeadTag_no_ad(key, nonce, ad, ct) == Blob(<<"tag", key, nonce, <<>>, ct>>, MAC_SIZE)

AeadTag(key, nonce, ad, ct) == Blob(<<"tag", key, nonce, ad, ct>>, MAC_SIZE)

\* variant: every tag verifies
AeadVerify_any(key, nonce, ad, ct, tag) == TRUE

AeadVerify(key, nonce, ad, ct, tag) == tag = AeadTag(key, nonce, ad, ct)

AeadPlainText(key, nonce, ct) ==
    IF ct = <<>> THEN <<>>
    ELSE IF /\ Len(ct) = 1
            /\ ct[1].v[1] = "ct"
            /\ ct[1].v[2] = key
            /\ ct[1].v[3] = nonce
            /\ ct[1].a = 1
            /\ ct[1].b = BLen(ct[1].v[4])
         THEN ct[1].v[4]
         ELSE Blob(<<"garbage", key, nonce, ct>>, BLen(ct))


(***************************************************************************)
(* Option values                                                           *)
(***************************************************************************)
None == <<"none">>

Some(x) == <<"some", x>>

IsSome(o) == o[1] = "some"

Unwrap(o) == o[2]

(***************************************************************************)
(* CipherState (machine/mod.rs)                                            *)
(***************************************************************************)
CipherState_empty == [nonce |-> 0, secret_key |-> Zeros(32), salt |-> Zeros(32)]

initialize_key(cs, key) == [cs EXCEPT !.secret_key = key, !.nonce = 0]

\* variant: the salt given is dropped
initialize_key_keep_salt(cs, salt, key) == initialize_key(cs, key)

initialize_key_with_salt(cs, salt, key) ==
    initialize_key([cs EXCEPT !.salt = salt], key)

\* variant: the new key is derived from the salt already replaced
rotate_key_salt_first(cs) ==
    initialize_key(
        [cs EXCEPT !.salt = BTake(HkdfExpand64(cs.salt, cs.secret_key), 32)],
        BDrop(HkdfExpand64(BTake(HkdfExpand64(cs.salt, cs.secret_key), 32),
                           cs.secret_key), 32))

rotate_key(cs) ==
    initialize_key(
        [cs EXCEPT !.salt = BTake(HkdfExpand64(cs.salt, cs.secret_key), 32)],
        BDrop(HkdfExpand64(cs.salt, cs.secret_key), 32))

\* variant: the comparison is made before the increment
advance_late(cs) ==
    IF cs.nonce = KEY_ROTATION_INTERVAL
    THEN [cs EXCEPT !.nonce = 0,
                    !.salt = BTake(HkdfExpand64(cs.salt, cs.secret_key), 32),
                    !.secret_key = BDrop(HkdfExpand64(cs.salt, cs.secret_key), 32)]
    ELSE [cs EXCEPT !.nonce = cs.nonce + 1]

\* variant: the interval is one short
advance_early(cs) ==
    IF cs.nonce + 1 = KEY_ROTATION_INTERVAL - 1
    THEN [cs EXCEPT !.nonce = 0,
                    !.salt = BTake(HkdfExpand64(cs.salt, cs.secret_key), 32),
                    !.secret_key = BDrop(HkdfExpand64(cs.salt, cs.secret_key), 32)]
    ELSE [cs EXCEPT !.nonce = cs.nonce + 1]

\* self.nonce += 1; if self.nonce == KEY_ROTATION_INTERVAL { self.rotate_key() }
advance(cs) ==
    IF cs.nonce + 1 = KEY_ROTATION_INTERVAL
    THEN rotate_key([cs EXCEPT !.nonce = cs.nonce + 1])
    ELSE [cs EXCEPT !.nonce = cs.nonce + 1]

Call(op, ok, pre, post) == [op |-> op, ok |-> ok, pre |-> pre, post |-> post]

AeadSeal(key, nonce, ad, pt) ==
    [ct  |-> AeadCipherText(key, nonce, pt),
     tag |-> AeadTag(key, nonce, ad, AeadCipherText(key, nonce, pt))]

AeadOpen(key, nonce, ad, ct, tag) ==
    [ok |-> AeadVerify(key, nonce, ad, ct, tag),
     pt |-> AeadPlainText(key, nonce, ct)]

Sealed(cs, post, x) ==
    [ok |-> TRUE, cs |-> post, ct |-> x.ct, tag |-> x.tag,
     calls |-> <<Call("encrypt", TRUE, cs, post)>>]

encrypt(cs, ad, pt) ==
    Sealed(cs, advance(cs), AeadSeal(cs.secret_key, EncodeNonce(cs.nonce), ad, pt))

Opened(cs, post, x) ==
    IF x.ok
    THEN [ok |-> TRUE, cs |-> post, pt |-> x.pt,
          calls |-> <<Call("decrypt", TRUE, cs, post)>>]
    ELSE [ok |-> FALSE, cs |-> cs, pt |-> <<>>,
          calls |-> <<Call("decrypt", FALSE, cs, cs)>>]

\* variant: decrypt never rotates the key
decrypt_no_rotate(cs, ad, ct, tag) ==
    Opened(cs, [cs EXCEPT !.nonce = cs.nonce + 1],
           AeadOpen(cs.secret_key, EncodeNonce(cs.nonce), ad, ct, tag))

\* variant: the nonce is advanced before the tag is verified
decrypt_advancing(cs, ad, ct, tag) ==
    [ok    |-> AeadVerify(cs.secret_key, EncodeNonce(cs.nonce), ad, ct, tag),
     cs    |-> advance(cs),
     pt    |-> AeadPlainText(cs.secret_key, EncodeNonce(cs.nonce), ct),
     calls |-> <<Call("decrypt",
                      AeadVerify(cs.secret_key, EncodeNonce(cs.nonce), ad, ct, tag),
                      cs, advance(cs))>>]

decrypt(cs, ad, ct, tag) ==
    Opened(cs, advance(cs), AeadOpen(cs.secret_key, EncodeNonce(cs.nonce), ad, ct, tag))

(***************************************************************************)
(* CipherState (machine/cipher_state.rs)                                   *)
(***************************************************************************)
CS_KEY_ROTATION_INTERVAL == 1000

CipherState_new(salt, key) == [nonce |-> 0, secret_key |-> key, salt |-> salt]

\* variant: the rotation replaces the key and keeps the salt
CipherState_next_keep_salt(cs) ==
    IF cs.nonce + 1 = CS_KEY_ROTATION_INTERVAL
    THEN [nonce      |-> 0,
          salt       |-> cs.salt,
          secret_key |-> BDrop(HkdfExpand64(cs.salt, cs.secret_key), 32)]
    ELSE [cs EXCEPT !.nonce = cs.nonce + 1]

CipherState_next(cs) ==
    IF cs.nonce + 1 = CS_KEY_ROTATION_INTERVAL
    THEN [nonce      |-> 0,
          salt       |-> BTake(HkdfExpand64(cs.salt, cs.secret_key), 32),
          secret_key |-> BDrop(HkdfExpand64(cs.salt, cs.secret_key), 32)]
    ELSE [cs EXCEPT !.nonce = cs.nonce + 1]

CipherState_encrypt(cs, ad, pt) ==
    Sealed(cs, CipherState_next(cs),
           AeadSeal(cs.secret_key, EncodeNonce(cs.nonce), ad, pt))

CipherState_decrypt(cs, ad, ct, tag) ==
    Opened(cs, CipherState_next(cs),
           AeadOpen(cs.secret_key, EncodeNonce(cs.nonce), ad, ct, tag))

(***************************************************************************)
(* SymmetricState                                                          *)
(***************************************************************************)
SymmetricState_empty ==
    [cipher_state     |-> CipherState_empty,
     chaining_key     |-> Zeros(32),
     temp_key         |-> Zeros(32),
     handshake_digest |-> Zeros(32)]

\* variant: the handshake cipher keeps its nonce when it is given the new key
MixedKey_keep_nonce(ss, okm) ==
    [ss EXCEPT !.chaining_key = BTake(okm, 32),
               !.temp_key     = BDrop(okm, 32),
               !.cipher_state = [initialize_key(ss.cipher_state, BDrop(okm, 32))
                                    EXCEPT !.nonce = ss.cipher_state.nonce]]

MixedKey(ss, okm) ==
    [ss EXCEPT !.chaining_key = BTake(okm, 32),
               !.temp_key     = BDrop(okm, 32),
               !.cipher_state = initialize_key(ss.cipher_state, BDrop(okm, 32))]

mix_key(ss, input) == MixedKey(ss, HkdfExpand64(ss.chaining_key, input))

mix_hash(ss, data) ==
    [ss EXCEPT !.handshake_digest = Sha256(BCat(ss.handshake_digest, data))]

Hashed(op, ss, post, r) ==
    [ok |-> TRUE, ss |-> post, ct |-> r.ct, tag |-> r.tag, pt |-> <<>>,
     calls |-> <<Call(op, TRUE, ss, post)>>]

EncryptedAndHashed(ss, r) ==
    Hashed("encrypt_and_hash", ss,
           mix_hash([ss EXCEPT !.cipher_state = r.cs], BCat(r.ct, r.tag)), r)

encrypt_and_hash(ss, plaintext) ==
    EncryptedAndHashed(ss, encrypt(ss.cipher_state, ss.handshake_digest, plaintext))

Unhashed(ss, post, r) ==
    [ok |-> r.ok, ss |-> post, ct |-> <<>>, tag |-> <<>>, pt |-> r.pt,
     calls |-> <<Call("decrypt_and_hash", r.ok, ss, post)>>]

\* variant: the ciphertext is hashed whether or not the tag verified
DecryptedAndHashed_eager(ss, ciphertext, tag, r) ==
    Unhashed(ss, mix_hash([ss EXCEPT !.cipher_state = r.cs], BCat(ciphertext, tag)), r)

DecryptedAndHashed(ss, ciphertext, tag, r) ==
    IF r.ok
    THEN Unhashed(ss, mix_hash([ss EXCEPT !.cipher_state = r.cs],
                               BCat(ciphertext, tag)), r)
    ELSE Unhashed(ss, [ss EXCEPT !.cipher_state = r.cs], r)

decrypt_and_hash(ss, ciphertext, tag) ==
    DecryptedAndHashed(ss, ciphertext, tag,
        decrypt(ss.cipher_state, ss.handshake_digest, ciphertext, tag))

initialize_symmetric(ss, protocol_name) ==
    [ss EXCEPT !.handshake_digest = Sha256(protocol_name),
               !.chaining_key     = Sha256(protocol_name),
               !.cipher_state     = initialize_key(ss.cipher_state, Zeros(32))]

ecdh(pk, sk) == Sha256(Serialize(PointMul(pk, sk)))

(***************************************************************************)
(* HandshakeState and Machine construction                                 *)
(***************************************************************************)
\* variant: both roles hash the remote key given
HandshakeState_new_remote_key(initiator, prologue, local_priv, remote_pub) ==
    [symmetric_state  |->
        mix_hash(mix_hash(initialize_symmetric(SymmetricState_empty, PROTOCOL_NAME),
                          prologue),
                 Serialize(remote_pub)),
     initiator        |-> initiator,
     local_static     |-> local_priv,
     local_ephemeral  |-> None,
     remote_static    |-> remote_pub,
     remote_ephemeral |-> None]

HandshakeState_new(initiator, prologue, local_priv, remote_pub) ==
    [symmetric_state  |->
        mix_hash(mix_hash(initialize_symmetric(SymmetricState_empty, PROTOCOL_NAME),
                          prologue),
                 IF initiator
                 THEN Serialize(remote_pub)
                 ELSE Serialize(PubOf(local_priv))),
     initiator        |-> initiator,
     local_static     |-> local_priv,
     local_ephemeral  |-> None,
     remote_static    |-> remote_pub,
     remote_ephemeral |-> None]

Machine_new(initiator, local_priv, remote_pub) ==
    [send_cipher     |-> CipherState_empty,
     recv_cipher     |-> CipherState_empty,
     initiator       |-> initiator,
     handshake_state |-> HandshakeState_new(initiator, PROLOGUE, local_priv, remote_pub)]

(***************************************************************************)
(* ActOne / ActTwo / ActThree packets                                      *)
(***************************************************************************)
ActOne_new(version, key, tag) == BCat(BCat(<<Byte(version)>>, key), tag)

ActThree_new(version, key, tag_first, tag_second) ==
    BCat(BCat(BCat(<<Byte(version)>>, key), tag_first), tag_second)

Act_version_ok(bytes) == BTake(bytes, 1) = <<Byte(0)>>

ActOne_key(bytes) == BSlice(bytes, 1, 34)

ActOne_tag(bytes) == BDrop(bytes, 34)

ActThree_key(bytes) == BSlice(bytes, 1, 34)

ActThree_tag_first(bytes) == BSlice(bytes, 34, 50)

ActThree_tag_second(bytes) == BDrop(bytes, 50)

PublicKey_from_slice(bs) == IF IsKeyBytes(bs) THEN Some(bs[1].v) ELSE None

(***************************************************************************)
(* Results of the handlers: ok, the error variant, the Machine afterwards, *)
(* the bytes produced, and the cipher calls the handler made               *)
(***************************************************************************)
Ok(m, out, cl) ==
    [ok |-> TRUE, err |-> "", m |-> m, out |-> out, calls |-> cl, n |-> 0]

Err(e, m, cl) ==
    [ok |-> FALSE, err |-> e, m |-> m, out |-> <<>>, calls |-> cl, n |-> 0]

SS(m) == m.handshake_state.symmetric_state

WithSS(m, ss) == [m EXCEPT !.handshake_state.symmetric_state = ss]

\* variant: both roles take the first half to send and the second to receive
split_unswapped(m) ==
    [m EXCEPT
        !.send_cipher = initialize_key_with_salt(m.send_cipher, SS(m).chaining_key,
                            BTake(HkdfExpand64(SS(m).chaining_key, <<>>), 32)),
        !.recv_cipher = initialize_key_with_salt(m.recv_cipher, SS(m).chaining_key,
                            BDrop(HkdfExpand64(SS(m).chaining_key, <<>>), 32))]

split(m) ==
    IF m.handshake_state.initiator
    THEN [m EXCEPT
            !.send_cipher = initialize_key_with_salt(m.send_cipher, SS(m).chaining_key,
                                BTake(HkdfExpand64(SS(m).chaining_key, <<>>), 32)),
            !.recv_cipher = initialize_key_with_salt(m.recv_cipher, SS(m).chaining_key,
                                BDrop(HkdfExpand64(SS(m).chaining_key, <<>>), 32))]
    ELSE [m EXCEPT
            !.recv_cipher = initialize_key_with_salt(m.recv_cipher, SS(m).chaining_key,
                                BTake(HkdfExpand64(SS(m).chaining_key, <<>>), 32)),
            !.send_cipher = initialize_key_with_salt(m.send_cipher, SS(m).chaining_key,
                                BDrop(HkdfExpand64(SS(m).chaining_key, <<>>), 32))]

\* e: store the fresh ephemeral key and hash its public part
SetLocalEphemeral(m, eph) ==
    [m EXCEPT !.handshake_state.local_ephemeral = Some(eph),
              !.handshake_state.symmetric_state = mix_hash(@, Serialize(PubOf(eph)))]

\* e: store the peer's ephemeral key and hash it
SetRemoteEphemeral(m, pk) ==
    [m EXCEPT !.handshake_state.remote_ephemeral = Some(pk),
              !.handshake_state.symmetric_state = mix_hash(@, Serialize(pk))]

\* es / ee / se: mix_key(ecdh(pk, sk))
MixDH(m, pk, sk) ==
    [m EXCEPT !.handshake_state.symmetric_state = mix_key(@, ecdh(pk, sk))]

\* variant: the act is written with version byte 1
GenAuth_version_one(m, ephemeral, r) ==
    Ok(WithSS(m, r.ss), ActOne_new(1, ephemeral, r.tag), r.calls)

GenAuth(m, ephemeral, r) ==
    Ok(WithSS(m, r.ss), ActOne_new(0, ephemeral, r.tag), r.calls)

gen_act_auth(m, ephemeral) == GenAuth(m, ephemeral, encrypt_and_hash(SS(m), <<>>))

gen_act_one_es(m, eph) ==
    gen_act_auth(MixDH(m, m.handshake_state.remote_static, eph), Serialize(PubOf(eph)))

gen_act_one(m, eph) == gen_act_one_es(SetLocalEphemeral(m, eph), eph)

\* variant: the outcome of the tag verification is not looked at
RecvAuth_unchecked(m, r) == Ok(WithSS(m, r.ss), <<>>, r.calls)

RecvAuth(m, r) ==
    IF r.ok
    THEN Ok(WithSS(m, r.ss), <<>>, r.calls)
    ELSE Err("Io", WithSS(m, r.ss), r.calls)

recv_act_auth(m, tag) == RecvAuth(m, decrypt_and_hash(SS(m), <<>>, tag))

recv_act_one_es(m, act_one) ==
    recv_act_auth(MixDH(m, Unwrap(m.handshake_state.remote_ephemeral),
                        m.handshake_state.local_static),
                  ActOne_tag(act_one))

recv_act_one_e(m, act_one, k) ==
    IF ~IsSome(k)
    THEN Err("Crypto", m, <<>>)
    ELSE recv_act_one_es(SetRemoteEphemeral(m, Unwrap(k)), act_one)

\* variant: the ephemeral key is stored and hashed before the version is looked at
recv_act_one_version_last(m, act_one) ==
    IF ~Act_version_ok(act_one)
    THEN Err("UnknownHandshakeVersion",
             IF IsSome(PublicKey_from_slice(ActOne_key(act_one)))
             THEN SetRemoteEphemeral(m, Unwrap(PublicKey_from_slice(ActOne_key(act_one))))
             ELSE m,
             <<>>)
    ELSE recv_act_one_e(m, act_one, PublicKey_from_slice(ActOne_key(act_one)))

recv_act_one(m, act_one) ==
    IF ~Act_version_ok(act_one)
    THEN Err("UnknownHandshakeVersion", m, <<>>)
    ELSE recv_act_one_e(m, act_one, PublicKey_from_slice(ActOne_key(act_one)))

\* variant: an absent remote ephemeral key is replaced by a default key
gen_act_two_ee_defaulted(m, eph) ==
    gen_act_auth(MixDH(m,
                       IF IsSome(m.handshake_state.remote_ephemeral)
                       THEN Unwrap(m.handshake_state.remote_ephemeral)
                       ELSE PubOf(<<"sk", "zero">>),
                       eph),
                 Serialize(PubOf(eph)))

gen_act_two_ee(m, eph) ==
    IF ~IsSome(m.handshake_state.remote_ephemeral)
    THEN Err("NotInitializedYet", m, <<>>)
    ELSE gen_act_auth(MixDH(m, Unwrap(m.handshake_state.remote_ephemeral), eph),
                      Serialize(PubOf(eph)))

gen_act_two(m, eph) == gen_act_two_ee(SetLocalEphemeral(m, eph), eph)

recv_act_two_ee(m, act_two) ==
    IF ~IsSome(m.handshake_state.local_ephemeral)
    THEN Err("NotInitializedYet", m, <<>>)
    ELSE recv_act_auth(MixDH(m, Unwrap(m.handshake_state.remote_ephemeral),
                             Unwrap(m.handshake_state.local_ephemeral)),
                       ActOne_tag(act_two))

recv_act_two_e(m, act_two, k) ==
    IF ~IsSome(k)
    THEN Err("Crypto", m, <<>>)
    ELSE recv_act_two_ee(SetRemoteEphemeral(m, Unwrap(k)), act_two)

recv_act_two(m, act_two) ==
    IF ~Act_version_ok(act_two)
    THEN Err("UnknownHandshakeVersion", m, <<>>)
    ELSE recv_act_two_e(m, act_two, PublicKey_from_slice(ActOne_key(act_two)))

gen_act_three_out(m, r1, r2) ==
    Ok(split(WithSS(m, r2.ss)), ActThree_new(0, r1.ct, r1.tag, r2.tag),
       r1.calls \o r2.calls)

gen_act_three_auth(m, r1) == gen_act_three_out(m, r1, encrypt_and_hash(SS(m), <<>>))

gen_act_three_se(m, r1) ==
    IF ~IsSome(m.handshake_state.remote_ephemeral)
    THEN Err("NotInitializedYet", m, r1.calls)
    ELSE gen_act_three_auth(MixDH(m, Unwrap(m.handshake_state.remote_ephemeral),
                                  m.handshake_state.local_static), r1)

gen_act_three_s(m, r1) == gen_act_three_se(WithSS(m, r1.ss), r1)

gen_act_three(m) ==
    gen_act_three_s(m, encrypt_and_hash(SS(m),
                           Serialize(PubOf(m.handshake_state.local_static))))

recv_act_three_out(m, r1, r2) ==
    IF r2.ok
    THEN Ok(split(WithSS(m, r2.ss)), <<>>, r1.calls \o r2.calls)
    ELSE Err("Io", WithSS(m, r2.ss), r1.calls \o r2.calls)

recv_act_three_auth(m, act_three, r1) ==
    recv_act_three_out(m, r1,
        decrypt_and_hash(SS(m), <<>>, ActThree_tag_second(act_three)))

recv_act_three_se(m, act_three, r1) ==
    IF ~IsSome(m.handshake_state.local_ephemeral)
    THEN Err("NotInitializedYet", m, r1.calls)
    ELSE recv_act_three_auth(MixDH(m, m.handshake_state.remote_static,
                                   Unwrap(m.handshake_state.local_ephemeral)),
                             act_three, r1)

\* variant: the decrypted static key is parsed but not stored
recv_act_three_key_unset(m, act_three, r1, k) ==
    IF ~IsSome(k)
    THEN Err("Crypto", m, r1.calls)
    ELSE recv_act_three_se(m, act_three, r1)

recv_act_three_key(m, act_three, r1, k) ==
    IF ~IsSome(k)
    THEN Err("Crypto", m, r1.calls)
    ELSE recv_act_three_se([m EXCEPT !.handshake_state.remote_static = Unwrap(k)],
                           act_three, r1)

recv_act_three_s(m, act_three, r1) ==
    IF ~r1.ok
    THEN Err("Io", WithSS(m, r1.ss), r1.calls)
    ELSE recv_act_three_key(WithSS(m, r1.ss), act_three, r1,
                            PublicKey_from_slice(r1.pt))

recv_act_three(m, act_three) ==
    IF ~Act_version_ok(act_three)
    THEN Err("UnknownHandshakeVersion", m, <<>>)
    ELSE recv_act_three_s(m, act_three,
             decrypt_and_hash(SS(m), ActThree_key(act_three),
                              ActThree_tag_first(act_three)))

(***************************************************************************)
(* Record layer                                                            *)
(***************************************************************************)
\* variant: the length is written low byte first
WriteU16LE(n) == <<Byte(n % 256), Byte((n \div 256) % 256)>>

WriteU16BE(n) == <<Byte((n \div 256) % 256), Byte(n % 256)>>

IsByte(r) == r.v[1] = "byte"

ReadU16BE(bs) ==
    IF Len(bs) = 2 /\ IsByte(bs[1]) /\ IsByte(bs[2])
    THEN bs[1].v[2] * 256 + bs[2].v[2]
    ELSE 0

\* variant: one nonce counter for both directions
write_message_out_shared_nonce(m, r1, r2) ==
    Ok([m EXCEPT !.send_cipher = r2.cs, !.recv_cipher.nonce = r2.cs.nonce],
       BCat(BCat(BCat(r1.ct, r1.tag), r2.ct), r2.tag),
       r1.calls \o r2.calls)

write_message_out(m, r1, r2) ==
    Ok([m EXCEPT !.send_cipher = r2.cs],
       BCat(BCat(BCat(r1.ct, r1.tag), r2.ct), r2.tag),
       r1.calls \o r2.calls)

\* variant: the body is encrypted with the cipher state the header was encrypted with
write_message_body_same_nonce(m, p, r1) ==
    write_message_out(m, r1, encrypt(m.send_cipher, <<>>, p))

write_message_body(m, p, r1) == write_message_out(m, r1, encrypt(r1.cs, <<>>, p))

write_message(m, p) ==
    IF BLen(p) > U16_MAX
    THEN Err("panic", m, <<>>)
    ELSE write_message_body(m, p,
             encrypt(m.send_cipher, <<>>, WriteU16BE(BLen(p) % (U16_MAX + 1))))

HeaderSize == LENGTH_HEADER_SIZE + MAC_SIZE

Blocked(m) == [Err("blocked", m, <<>>) EXCEPT !.n = 0]

\* variant: the result of the second decrypt is not looked at
read_message_out_unchecked(m, pkt_len, r1, r2) ==
    [ok |-> TRUE, err |-> "",
     m |-> [m EXCEPT !.recv_cipher = r2.cs], out |-> r2.pt,
     calls |-> r1.calls \o r2.calls, n |-> HeaderSize + pkt_len]

read_message_out(m, pkt_len, r1, r2) ==
    [ok |-> r2.ok, err |-> IF r2.ok THEN "" ELSE "Io",
     m |-> [m EXCEPT !.recv_cipher = r2.cs], out |-> r2.pt,
     calls |-> r1.calls \o r2.calls, n |-> HeaderSize + pkt_len]

read_message_text(m, rest, pkt_len, r1) ==
    IF BLen(rest) < pkt_len
    THEN Blocked(m)
    ELSE read_message_out(m, pkt_len, r1,
             decrypt(r1.cs, <<>>, BTake(rest, pkt_len - MAC_SIZE),
                     BSlice(rest, pkt_len - MAC_SIZE, pkt_len)))

\* variant: after a header that failed the tag's length of payload is read too
read_message_header_greedy(m, rest, r1) ==
    IF ~r1.ok
    THEN [Err("Io", [m EXCEPT !.recv_cipher = r1.cs], r1.calls)
             EXCEPT !.n = IF BLen(rest) >= MAC_SIZE THEN HeaderSize + MAC_SIZE
                          ELSE HeaderSize]
    ELSE read_message_text(m, rest, ReadU16BE(r1.pt) + MAC_SIZE, r1)

read_message_header(m, rest, r1) ==
    IF ~r1.ok
    THEN [Err("Io", [m EXCEPT !.recv_cipher = r1.cs], r1.calls) EXCEPT !.n = HeaderSize]
    ELSE read_message_text(m, rest, ReadU16BE(r1.pt) + MAC_SIZE, r1)

read_message(m, avail) ==
    IF BLen(avail) < HeaderSize
    THEN Blocked(m)
    ELSE read_message_header(m, BDrop(avail, HeaderSize),
             decrypt(m.recv_cipher, <<>>, BTake(avail, LENGTH_HEADER_SIZE),
                     BSlice(avail, LENGTH_HEADER_SIZE, HeaderSize)))

\* write_all on a writer that accepts k more bytes and then fails: the bytes
\* accepted are on the stream and the call returns the writer's error
write_all_failed(m, cl, out, k) ==
    [Err("BrokenPipe", m, cl) EXCEPT !.out = BTake(out, k)]

write_message_broken_body(k, r) ==
    IF k >= BLen(r.out) THEN r ELSE write_all_failed(r.m, r.calls, r.out, k)

write_message_broken_header(m, p, k, r1) ==
    IF k < HeaderSize
    THEN write_all_failed([m EXCEPT !.send_cipher = r1.cs], r1.calls,
                          BCat(r1.ct, r1.tag), k)
    ELSE write_message_broken_body(k, write_message_body(m, p, r1))

\* variant: a failed call leaves send_cipher as it was
write_message_broken_rewound(m, p, k) ==
    IF BLen(p) > U16_MAX
    THEN Err("panic", m, <<>>)
    ELSE [write_message_broken_header(m, p, k,
              encrypt(m.send_cipher, <<>>, WriteU16BE(BLen(p) % (U16_MAX + 1))))
          EXCEPT !.m = m]

\* write_message on a writer that fails after k bytes
write_message_broken(m, p, k) ==
    IF BLen(p) > U16_MAX
    THEN Err("panic", m, <<>>)
    ELSE write_message_broken_header(m, p, k,
             encrypt(m.send_cipher, <<>>, WriteU16BE(BLen(p) % (U16_MAX + 1))))

\* read_exact on a reader that ends before the buffer is full: the bytes there
\* were are consumed and the call returns the reader's error
read_exact_failed(m, cl, n) == [Err("UnexpectedEof", m, cl) EXCEPT !.n = n]

\* variant: the header's decrypt is undone when the body cannot be read
read_message_ended_header_rewound(m, avail, r1) ==
    IF r1.ok /\ BLen(avail) - HeaderSize < ReadU16BE(r1.pt) + MAC_SIZE
    THEN read_exact_failed(m, r1.calls, BLen(avail))
    ELSE read_message_header(m, BDrop(avail, HeaderSize), r1)

read_message_ended_header(m, avail, r1) ==
    IF r1.ok /\ BLen(avail) - HeaderSize < ReadU16BE(r1.pt) + MAC_SIZE
    THEN read_exact_failed([m EXCEPT !.recv_cipher = r1.cs], r1.calls, BLen(avail))
    ELSE read_message_header(m, BDrop(avail, HeaderSize), r1)

\* read_message on a reader that holds avail and then ends
read_message_ended(m, avail) ==
    IF BLen(avail) < HeaderSize
    THEN read_exact_failed(m, <<>>, BLen(avail))
    ELSE read_message_ended_header(m, avail,
             decrypt(m.recv_cipher, <<>>, BTake(avail, LENGTH_HEADER_SIZE),
                     BSlice(avail, LENGTH_HEADER_SIZE, HeaderSize)))

(***************************************************************************)
(* ConnectionStream (connection/src/address.rs)                            *)
(***************************************************************************)
\* ConnectionStream::new: no outgoing future yet. Besides the struct's
\* `outgoing` the record holds what the polled sources and the task look like
\* from outside: control, the commands waiting in the control stream; incoming,
\* the connections waiting in the incoming stream; controlParked /
\* incomingParked / outgoing[i].parked, the source returned NotReady to the
\* task's last poll of it and will notify the task when it becomes ready;
\* notified, the task is due to be polled; yielded, the items poll returned;
\* sent / arrived, what the environment has delivered so far; repolled, poll
\* was called on an outgoing future that had already completed; panicked, such
\* a poll panicked.
ConnectionStream_new ==
    [outgoing       |-> <<>>,
     control        |-> <<>>,
     controlParked  |-> FALSE,
     incoming       |-> 0,
     incomingParked |-> FALSE,
     notified       |-> TRUE,
     yielded        |-> <<>>,
     sent           |-> 0,
     arrived        |-> 0,
     repolled       |-> FALSE,
     panicked       |-> FALSE]

(***************************************************************************)
(* The session: an initiator and a responder joined by a duplex stream     *)
(***************************************************************************)
VARIABLES
    mach,       \* mach[s]: the Machine of side s
    wire,       \* wire[s]: bytes written by the peer of s that s has not read yet
    pc,         \* pc[s]: the Machine of s as its owner sees it: new, inside handshake()
                \* waiting for an act, ok (handshake returned Ok), err (a call failed)
    result,     \* result[s]: what handshake() returned on side s
    nWritten,   \* nWritten[s]: write_message calls of s that returned Ok
    nRead,      \* nRead[s]: read_message calls of s that returned Ok
    rOff,       \* rOff[s]: bytes s has consumed from its stream so far
    marks,      \* marks[s]: the records in flight towards s, with their stream offsets
    tampered,   \* the network has altered a byte
    tamperAt,   \* tamperAt[s]: stream offset of the altered byte towards s, -1 if none
    misuse,     \* a record operation was called on a Machine that was new or had failed
    last,       \* the last call made and what it returned
    calls,      \* the cipher operations made by the last call
    bulk,       \* the side that sends the long run of records
    unit,       \* a CipherState of each implementation, driven on its own by the same calls
    nActs,      \* act handlers called one by one, outside handshake(), so far
    conn        \* the ConnectionStream task and the sources it polls

vars == <<mach, wire, pc, result, nWritten, nRead, rOff, marks, tampered,
          tamperAt, misuse, last, calls, bulk, unit, nActs, conn>>

Sides == {"I", "R"}

Peer(s) == IF s = "I" THEN "R" ELSE "I"

LocalStatic(s) == <<"sk", "ls_" \o s>>

EphemeralGen(s) == <<"sk", "e_" \o s>>

OtherStatic == <<"sk", "other">>

MaxRecords == 2

MaxRotRecords == 501

MaxUnitOps == 1001

MaxInFlight == 2

Payload(id, n) == Blob(<<"data", id>>, n)

Payloads == {Payload("a", 0), Payload("b", 1), Payload("c", U16_MAX)}

RemoteStaticChoices == {PubOf(LocalStatic("R")), PubOf(OtherStatic)}

NoLast ==
    [op |-> "none", side |-> "I", ok |-> TRUE, err |-> "", pt |-> <<>>,
     from |-> 0, to |-> 0, wfrom |-> 0, wto |-> 0, expect |-> None]

NoResult == [err |-> "", key |-> None]

\* a: the CipherState of machine/mod.rs, b: the one of machine/cipher_state.rs;
\* salt0, key0: what both were initialised with; ops: successful calls so far;
\* op, ok: the last call and whether it succeeded; pa, pb: a and b before it;
\* used: the key and nonce the last successful call ran the AEAD with
UnitWith(salt, key) ==
    [a     |-> initialize_key_with_salt(CipherState_empty, salt, key),
     b     |-> CipherState_new(salt, key),
     salt0 |-> salt,
     key0  |-> key,
     ops   |-> 0,
     op    |-> "none",
     ok    |-> TRUE,
     pa    |-> CipherState_empty,
     pb    |-> CipherState_empty,
     used  |-> <<>>]

UnitKeys == {Blob(<<"key", "k1">>, 32), Blob(<<"key", "k2">>, 32)}

UnitIdle == UnitWith(Zeros(32), Zeros(32))

InitWith(remote_pub) ==
    /\ mach = [s \in Sides |->
                 IF s = "I"
                 THEN Machine_new(TRUE, LocalStatic("I"), remote_pub)
                 ELSE Machine_new(FALSE, LocalStatic("R"), PubOf(OtherStatic))]
    /\ wire = [s \in Sides |-> <<>>]
    /\ pc = [s \in Sides |-> "new"]
    /\ result = [s \in Sides |-> NoResult]
    /\ nWritten = [s \in Sides |-> 0]
    /\ nRead = [s \in Sides |-> 0]
    /\ rOff = [s \in Sides |-> 0]
    /\ marks = [s \in Sides |-> <<>>]
    /\ tampered = FALSE
    /\ tamperAt = [s \in Sides |-> -1]
    /\ misuse = FALSE
    /\ last = NoLast
    /\ calls = <<>>
    /\ bulk = "I"
    /\ unit = UnitIdle
    /\ nActs = 0
    /\ conn = ConnectionStream_new

Init == \E k \in RemoteStaticChoices : InitWith(k)

Idle(s) == pc[s] = "ok" \/ (pc[s] \in {"new", "err"} /\ ~misuse)

WEnd(s) == rOff[s] + BLen(wire[s])

Finish(s, op, ok, err, n, out) ==
    last' = [op |-> op, side |-> s, ok |-> ok, err |-> err, pt |-> <<>>,
             from |-> rOff[s], to |-> rOff[s] + n,
             wfrom |-> WEnd(Peer(s)), wto |-> WEnd(Peer(s)) + BLen(out),
             expect |-> None]

Transfer(s, n, out, mk) ==
    /\ wire' = [wire EXCEPT ![s] = BDrop(@, n), ![Peer(s)] = BCat(@, out)]
    /\ rOff' = [rOff EXCEPT ![s] = @ + n]
    /\ marks' = [marks EXCEPT ![s] = SelectSeq(@, LAMBDA k : k.from >= rOff[s] + n),
                              ![Peer(s)] = @ \o mk]

Returned(s, r, key) ==
    /\ pc' = [pc EXCEPT ![s] = IF r.ok THEN "ok" ELSE "err"]
    /\ result' = [result EXCEPT ![s] = [err |-> r.err, key |-> key]]

(***************************************************************************)
(* Machine::handshake, cut at the reads it blocks in                       *)
(***************************************************************************)
Then(r, g) == [g EXCEPT !.calls = r.calls \o g.calls]

\* the call goes on: s consumed n bytes, wrote r.out and now waits for the next act
Progress(s, n, r, op, waiting) ==
    /\ mach' = [mach EXCEPT ![s] = r.m]
    /\ Transfer(s, n, r.out, <<>>)
    /\ pc' = [pc EXCEPT ![s] = waiting]
    /\ UNCHANGED result
    /\ Finish(s, op, TRUE, "", n, r.out)
    /\ calls' = r.calls

\* handshake() returns on side s
Return(s, n, r) ==
    /\ mach' = [mach EXCEPT ![s] = r.m]
    /\ Transfer(s, n, r.out, <<>>)
    /\ Returned(s, r, IF r.ok THEN Some(r.m.handshake_state.remote_static) ELSE None)
    /\ Finish(s, "handshake", r.ok, r.err, n, r.out)
    /\ calls' = r.calls

InitiatorActOne ==
    /\ pc["I"] = "new"
    /\ Progress("I", 0, gen_act_one(mach["I"], EphemeralGen("I")), "act_one", "wait_act_two")
    /\ UNCHANGED <<nWritten, nRead, tampered, tamperAt, misuse, bulk, unit, nActs, conn>>

RespondActTwo(g) ==
    IF g.ok
    THEN Progress("R", ACT_ONE_SIZE, g, "act_two", "wait_act_three")
    ELSE Return("R", ACT_ONE_SIZE, g)

RespondActOne(r) ==
    IF r.ok
    THEN RespondActTwo(Then(r, gen_act_two(r.m, EphemeralGen("R"))))
    ELSE Return("R", ACT_ONE_SIZE, r)

ResponderActOneTwo ==
    /\ pc["R"] = "new"
    /\ BLen(wire["R"]) >= ACT_ONE_SIZE
    /\ RespondActOne(recv_act_one(mach["R"], BTake(wire["R"], ACT_ONE_SIZE)))
    /\ UNCHANGED <<nWritten, nRead, tampered, tamperAt, misuse, bulk, unit, nActs, conn>>

InitiateActTwo(r) ==
    IF r.ok
    THEN Return("I", ACT_ONE_SIZE, Then(r, gen_act_three(r.m)))
    ELSE Return("I", ACT_ONE_SIZE, r)

InitiatorActTwoThree ==
    /\ pc["I"] = "wait_act_two"
    /\ BLen(wire["I"]) >= ACT_ONE_SIZE
    /\ InitiateActTwo(recv_act_two(mach["I"], BTake(wire["I"], ACT_ONE_SIZE)))
    /\ UNCHANGED <<nWritten, nRead, tampered, tamperAt, misuse, bulk, unit, nActs, conn>>

ResponderActThree ==
    /\ pc["R"] = "wait_act_three"
    /\ BLen(wire["R"]) >= ACT_THREE_SIZE
    /\ Return("R", ACT_THREE_SIZE,
              recv_act_three(mach["R"], BTake(wire["R"], ACT_THREE_SIZE)))
    /\ UNCHANGED <<nWritten, nRead, tampered, tamperAt, misuse, bulk, unit, nActs, conn>>

(***************************************************************************)
(* Machine::write_message and Machine::read_message as the owner calls them*)
(***************************************************************************)
Mark(s, p, r) ==
    [from |-> WEnd(Peer(s)), to |-> WEnd(Peer(s)) + BLen(r.out), p |-> p]

Wrote(s, p, r) ==
    /\ mach' = [mach EXCEPT ![s] = r.m]
    /\ Transfer(s, 0, r.out, IF r.ok THEN <<Mark(s, p, r)>> ELSE <<>>)
    /\ nWritten' = [nWritten EXCEPT ![s] = IF r.ok THEN @ + 1 ELSE @]
    /\ last' = [op |-> "write", side |-> s, ok |-> r.ok, err |-> r.err,
                pt |-> p, from |-> rOff[s], to |-> rOff[s],
                wfrom |-> WEnd(Peer(s)), wto |-> WEnd(Peer(s)) + BLen(r.out),
                expect |-> None]
    /\ calls' = r.calls
    /\ pc' = IF r.ok THEN pc ELSE [pc EXCEPT ![s] = "err"]

WriteMessage(s, p) ==
    /\ Idle(s)
    /\ Wrote(s, p, write_message(mach[s], p))
    /\ misuse' = (misuse \/ pc[s] # "ok")
    /\ UNCHANGED <<result, nRead, tampered, tamperAt, bulk, unit, nActs, conn>>

ReadDone(s, r) ==
    /\ r.err # "blocked"
    /\ mach' = [mach EXCEPT ![s] = r.m]
    /\ Transfer(s, r.n, <<>>, <<>>)
    /\ nRead' = [nRead EXCEPT ![s] = IF r.ok THEN @ + 1 ELSE @]
    /\ last' = [op |-> "read", side |-> s, ok |-> r.ok, err |-> r.err,
                pt |-> r.out, from |-> rOff[s], to |-> rOff[s] + r.n,
                wfrom |-> WEnd(Peer(s)), wto |-> WEnd(Peer(s)),
                expect |-> IF marks[s] = <<>> THEN None ELSE Some(Head(marks[s]))]
    /\ calls' = r.calls
    /\ pc' = IF r.ok THEN pc ELSE [pc EXCEPT ![s] = "err"]

ReadMessage(s) ==
    /\ Idle(s)
    /\ ReadDone(s, read_message(mach[s], wire[s]))
    /\ misuse' = (misuse \/ pc[s] # "ok")
    /\ UNCHANGED <<result, nWritten, tampered, tamperAt, bulk, unit, nActs, conn>>

(***************************************************************************)
(* The network alters one byte in flight                                   *)
(***************************************************************************)
RECURSIVE RunEdges(_, _)
RunEdges(bs, off) ==
    IF bs = <<>> THEN {}
    ELSE {off, off + RunLen(Head(bs)) - 1}
         \cup RunEdges(Tail(bs), off + RunLen(Head(bs)))

FlipByte(bs, pos) ==
    BCat(BCat(BTake(bs, pos - 1), <<Run(<<"junk">>, 1, 1)>>), BDrop(bs, pos))

Tamper(s, pos) ==
    /\ ~tampered
    /\ s = Peer(last.side)
    /\ pos \in RunEdges(wire[s], 1)
    /\ rOff[s] + pos - 1 >= last.wfrom
    /\ rOff[s] + pos - 1 < last.wto
    /\ wire' = [wire EXCEPT ![s] = FlipByte(@, pos)]
    /\ tampered' = TRUE
    /\ tamperAt' = [tamperAt EXCEPT ![s] = rOff[s] + pos - 1]
    /\ last' = [NoLast EXCEPT !.op = "tamper", !.side = Peer(s)]
    /\ calls' = <<>>
    /\ UNCHANGED <<mach, pc, result, nWritten, nRead, rOff, marks, misuse, bulk, unit, nActs, conn>>

Handshake ==
    \/ InitiatorActOne
    \/ ResponderActOneTwo
    \/ InitiatorActTwoThree
    \/ ResponderActThree

Write ==
    \E s \in Sides, p \in Payloads :
        /\ nWritten["I"] + nWritten["R"] < MaxRecords
        /\ WriteMessage(s, p)

Read == \E s \in Sides : ReadMessage(s)

Alter == \E s \in Sides : \E pos \in RunEdges(wire[s], 1) : Tamper(s, pos)

Next == Handshake \/ Write \/ Read \/ Alter

Spec == Init /\ [][Next]_vars

(***************************************************************************)
(* A long run of records in one direction, between honest peers            *)
(***************************************************************************)
RotPayload == Payload("hello", 5)

InitRot ==
    \E b \in Sides :
        /\ mach = [s \in Sides |->
                     IF s = "I"
                     THEN Machine_new(TRUE, LocalStatic("I"), PubOf(LocalStatic("R")))
                     ELSE Machine_new(FALSE, LocalStatic("R"), PubOf(OtherStatic))]
        /\ wire = [s \in Sides |-> <<>>]
        /\ pc = [s \in Sides |-> "new"]
        /\ result = [s \in Sides |-> NoResult]
        /\ nWritten = [s \in Sides |-> 0]
        /\ nRead = [s \in Sides |-> 0]
        /\ rOff = [s \in Sides |-> 0]
        /\ marks = [s \in Sides |-> <<>>]
        /\ tampered = FALSE
        /\ tamperAt = [s \in Sides |-> -1]
        /\ misuse = FALSE
        /\ last = NoLast
        /\ calls = <<>>
        /\ bulk = b
        /\ unit = UnitIdle
        /\ nActs = 0
        /\ conn = ConnectionStream_new

WriteRot ==
    /\ pc[bulk] = "ok"
    /\ nWritten[bulk] < MaxRotRecords
    /\ Len(marks[Peer(bulk)]) < MaxInFlight
    /\ WriteMessage(bulk, RotPayload)

ReadRot ==
    /\ pc[Peer(bulk)] = "ok"
    /\ ReadMessage(Peer(bulk))

NextRot == Handshake \/ WriteRot \/ ReadRot

SpecRot == InitRot /\ [][NextRot]_vars

(***************************************************************************)
(* The long run, with a few records going the other way in between         *)
(***************************************************************************)
MaxBackRecords == 2

BackPayloads == {Payload("back", 3), Payload("big", U16_MAX + 1)}

WriteBack ==
    \E p \in BackPayloads :
        /\ pc[Peer(bulk)] = "ok"
        /\ nWritten[Peer(bulk)] < MaxBackRecords
        /\ marks[bulk] = <<>>
        /\ WriteMessage(Peer(bulk), p)

ReadBack ==
    /\ pc[bulk] = "ok"
    /\ ReadMessage(bulk)

\* the network alters a byte of a record going back, late in the long run
AlterBack ==
    /\ nWritten[bulk] >= MaxRotRecords - 1
    /\ \E pos \in RunEdges(wire[bulk], 1) : Tamper(bulk, pos)

NextDuplex == Handshake \/ WriteRot \/ ReadRot \/ WriteBack \/ ReadBack \/ AlterBack

SpecDuplex == InitRot /\ [][NextDuplex]_vars

(***************************************************************************)
(* One CipherState of each implementation, driven by the same calls        *)
(***************************************************************************)
UnitPlain == {<<>>, Payload("x", 2)}

UnitAd == {<<>>, Blob(<<"ad">>, 32)}

InitUnit ==
    \E k \in UnitKeys, salt \in UnitKeys :
        /\ mach = [s \in Sides |->
                     IF s = "I"
                     THEN Machine_new(TRUE, LocalStatic("I"), PubOf(LocalStatic("R")))
                     ELSE Machine_new(FALSE, LocalStatic("R"), PubOf(OtherStatic))]
        /\ wire = [s \in Sides |-> <<>>]
        /\ pc = [s \in Sides |-> "new"]
        /\ result = [s \in Sides |-> NoResult]
        /\ nWritten = [s \in Sides |-> 0]
        /\ nRead = [s \in Sides |-> 0]
        /\ rOff = [s \in Sides |-> 0]
        /\ marks = [s \in Sides |-> <<>>]
        /\ tampered = FALSE
        /\ tamperAt = [s \in Sides |-> -1]
        /\ misuse = FALSE
        /\ last = NoLast
        /\ calls = <<>>
        /\ bulk = "I"
        /\ unit = UnitWith(salt, k)
        /\ nActs = 0
        /\ conn = ConnectionStream_new

UnitDone(op, ra, rb, used) ==
    /\ unit' = [unit EXCEPT !.a    = ra.cs,
                            !.b    = rb.cs,
                            !.ops  = IF ra.ok THEN @ + 1 ELSE @,
                            !.op   = op,
                            !.ok   = ra.ok /\ rb.ok,
                            !.pa   = unit.a,
                            !.pb   = unit.b,
                            !.used = used]
    /\ UNCHANGED <<mach, wire, pc, result, nWritten, nRead, rOff, marks, tampered,
                   tamperAt, misuse, last, calls, bulk, nActs, conn>>

UsedBy(tag) == <<tag[1].v[2], tag[1].v[3]>>

UnitEncrypted(ra, rb) == UnitDone("encrypt", ra, rb, UsedBy(ra.tag))

UnitEncrypt(ad, pt) ==
    /\ unit.ops < MaxUnitOps
    /\ UnitEncrypted(encrypt(unit.a, ad, pt), CipherState_encrypt(unit.b, ad, pt))

UnitDecrypted(ra, rb, tag) ==
    UnitDone("decrypt", ra, rb, IF ra.ok THEN UsedBy(tag) ELSE <<>>)

UnitOpen(ad, x) ==
    UnitDecrypted(decrypt(unit.a, ad, x.ct, x.tag),
                  CipherState_decrypt(unit.b, ad, x.ct, x.tag), x.tag)

\* a peer CipherState with the same key and nonce encrypted the message
UnitDecrypt(ad, pt) ==
    /\ unit.ops < MaxUnitOps
    /\ UnitOpen(ad, AeadSeal(unit.a.secret_key, EncodeNonce(unit.a.nonce), ad, pt))

\* the message was encrypted under the next nonce, or its tag was altered
UnitDecryptBad(pt, stale) ==
    /\ unit.ops < MaxUnitOps
    /\ unit.ok
    /\ IF stale
       THEN UnitOpen(<<>>, AeadSeal(unit.a.secret_key, EncodeNonce(unit.a.nonce + 1),
                                   <<>>, pt))
       ELSE UnitOpen(<<>>, [AeadSeal(unit.a.secret_key, EncodeNonce(unit.a.nonce),
                                    <<>>, pt)
                              EXCEPT !.tag = FlipByte(@, 1)])

NextUnit ==
    \/ \E ad \in UnitAd, pt \in UnitPlain : UnitEncrypt(ad, pt)
    \/ \E ad \in UnitAd, pt \in UnitPlain : UnitDecrypt(ad, pt)
    \/ \E pt \in UnitPlain, stale \in BOOLEAN : UnitDecryptBad(pt, stale)

SpecUnit == InitUnit /\ [][NextUnit]_vars

(***************************************************************************)
(* Honest peers over a network that may deliver two adjacent records in    *)
(* the other order; the writer may also submit a payload that is too long  *)
(***************************************************************************)
MaxNetRecords == 3

SeqId == <<"m1", "m2", "m3", "m4", "m5">>

NetLengths == {1, 5, U16_MAX + 1}

\* the k-th payload a side submits, n bytes long
SeqPayload(k, n) == Payload(SeqId[k], n)

WriteNet ==
    \E s \in Sides, n \in NetLengths :
        /\ pc[s] = "ok"
        /\ nWritten["I"] + nWritten["R"] < MaxNetRecords
        /\ WriteMessage(s, SeqPayload(nWritten[s] + 1, n))

ReadNet ==
    \E s \in Sides :
        /\ pc[s] = "ok" \/ (pc[s] = "err" /\ IsSome(result[s].key))
        /\ ReadMessage(s)

Swapped(w, off, a, b) ==
    BCat(BCat(BCat(BTake(w, a.from - off), BSlice(w, b.from - off, b.to - off)),
              BSlice(w, a.from - off, a.to - off)),
         BDrop(w, b.to - off))

SwappedMarks(mk, i, a, b) ==
    [k \in 1 .. Len(mk) |->
        IF k = i THEN [from |-> a.from, to |-> a.from + (b.to - b.from), p |-> b.p]
        ELSE IF k = i + 1 THEN [from |-> a.from + (b.to - b.from), to |-> b.to, p |-> a.p]
        ELSE mk[k]]

\* records i and i + 1 in flight towards s change places
SwapAt(s, i, a, b) ==
    /\ wire' = [wire EXCEPT ![s] = Swapped(@, rOff[s], a, b)]
    /\ marks' = [marks EXCEPT ![s] = SwappedMarks(@, i, a, b)]
    /\ tampered' = TRUE
    /\ tamperAt' = [tamperAt EXCEPT ![s] = a.from]
    /\ last' = [NoLast EXCEPT !.op = "swap", !.side = Peer(s)]
    /\ calls' = <<>>
    /\ UNCHANGED <<mach, pc, result, nWritten, nRead, rOff, misuse, bulk, unit, nActs, conn>>

Swap ==
    \E s \in Sides :
        /\ ~tampered
        /\ \E i \in 1 .. (Len(marks[s]) - 1) :
              SwapAt(s, i, marks[s][i], marks[s][i + 1])

NextNet == Handshake \/ WriteNet \/ ReadNet \/ Swap

SpecNet == InitWith(PubOf(LocalStatic("R"))) /\ [][NextNet]_vars

(***************************************************************************)
(* A stream that ends early: read_message is handed a reader that yields   *)
(* only the first bytes of what was written and then ends                  *)
(***************************************************************************)
CutPoints == {0, 1, HeaderSize - 1, HeaderSize, HeaderSize + 1}

Cuts(s) ==
    {k \in CutPoints \cup {BLen(wire[s]) - 1, BLen(wire[s])} :
        k >= 0 /\ k <= BLen(wire[s])}

ReadCut ==
    \E s \in Sides : \E k \in Cuts(s) :
        /\ pc[s] = "ok"
        /\ ReadDone(s, read_message_ended(mach[s], BTake(wire[s], k)))
        /\ UNCHANGED <<result, nWritten, tampered, tamperAt, misuse, bulk, unit, nActs, conn>>

NextCut == Handshake \/ WriteNet \/ ReadNet \/ ReadCut

SpecCut == InitWith(PubOf(LocalStatic("R"))) /\ [][NextCut]_vars

(***************************************************************************)
(* A writer that fails part-way through a record.  tamperAt then holds the *)
(* stream offset at which the incomplete record starts.                    *)
(***************************************************************************)
MaxBreakRecords == 2

BreakLengths == {0, 5}

BreakPoints(n) == {0, 1, HeaderSize, HeaderSize + n + MAC_SIZE - 1}

WriteBreak ==
    \E s \in Sides, n \in BreakLengths : \E k \in BreakPoints(n) :
        /\ pc[s] = "ok"
        /\ ~tampered
        /\ Wrote(s, SeqPayload(nWritten[s] + 1, n),
                 write_message_broken(mach[s], SeqPayload(nWritten[s] + 1, n), k))
        /\ tampered' = TRUE
        /\ tamperAt' = [tamperAt EXCEPT ![Peer(s)] = WEnd(Peer(s))]
        /\ UNCHANGED <<result, nRead, misuse, bulk, unit, nActs, conn>>

WriteOn ==
    \E s \in Sides, n \in BreakLengths :
        /\ pc[s] = "ok" \/ (pc[s] = "err" /\ IsSome(result[s].key))
        /\ nWritten["I"] + nWritten["R"] < MaxBreakRecords
        /\ WriteMessage(s, SeqPayload(nWritten[s] + 1, n))

NextBreak == Handshake \/ WriteOn \/ WriteBreak \/ ReadNet

SpecBreak == InitWith(PubOf(LocalStatic("R"))) /\ [][NextBreak]_vars

(***************************************************************************)
(* Machine::handshake over a stream whose writer fails or whose reader ends *)
(***************************************************************************)
\* where the writer given to an act's write fails: bytes accepted before
ActBreakPoints(size) == {0, 1, size - 1}

\* act.write(remote).map_err(HandshakeError::Io)?, the writer failing after k bytes
act_write_failed(r, k) ==
    [r EXCEPT !.ok = FALSE, !.err = "Io", !.out = BTake(r.out, k)]

ActOneBroken ==
    \E k \in ActBreakPoints(ACT_ONE_SIZE) :
        /\ pc["I"] = "new"
        /\ Return("I", 0,
                  act_write_failed(gen_act_one(mach["I"], EphemeralGen("I")), k))
        /\ UNCHANGED <<nWritten, nRead, tampered, tamperAt, misuse, bulk, unit, nActs, conn>>

RespondActTwoBroken(g, k) ==
    /\ g.ok
    /\ Return("R", ACT_ONE_SIZE, act_write_failed(g, k))

RespondActOneBroken(r, k) ==
    /\ r.ok
    /\ RespondActTwoBroken(Then(r, gen_act_two(r.m, EphemeralGen("R"))), k)

ActTwoBroken ==
    \E k \in ActBreakPoints(ACT_ONE_SIZE) :
        /\ pc["R"] = "new"
        /\ BLen(wire["R"]) >= ACT_ONE_SIZE
        /\ RespondActOneBroken(recv_act_one(mach["R"], BTake(wire["R"], ACT_ONE_SIZE)), k)
        /\ UNCHANGED <<nWritten, nRead, tampered, tamperAt, misuse, bulk, unit, nActs, conn>>

InitiateActThreeBroken(g, k) ==
    /\ g.ok
    /\ Return("I", ACT_ONE_SIZE, act_write_failed(g, k))

InitiateActTwoBroken(r, k) ==
    /\ r.ok
    /\ InitiateActThreeBroken(Then(r, gen_act_three(r.m)), k)

ActThreeBroken ==
    \E k \in ActBreakPoints(ACT_THREE_SIZE) :
        /\ pc["I"] = "wait_act_two"
        /\ BLen(wire["I"]) >= ACT_ONE_SIZE
        /\ InitiateActTwoBroken(recv_act_two(mach["I"], BTake(wire["I"], ACT_ONE_SIZE)), k)
        /\ UNCHANGED <<nWritten, nRead, tampered, tamperAt, misuse, bulk, unit, nActs, conn>>

ActSizeAwaited(s) ==
    IF pc[s] = "wait_act_three" THEN ACT_THREE_SIZE ELSE ACT_ONE_SIZE

\* the peer has given up and the stream ends inside the act s is reading
ActReadEnded ==
    \E s \in Sides :
        /\ pc[s] \in (IF s = "I" THEN {"wait_act_two"} ELSE {"new", "wait_act_three"})
        /\ pc[Peer(s)] = "err"
        /\ BLen(wire[s]) < ActSizeAwaited(s)
        /\ Return(s, BLen(wire[s]), Err("Io", mach[s], <<>>))
        /\ UNCHANGED <<nWritten, nRead, tampered, tamperAt, misuse, bulk, unit, nActs, conn>>

NextFail ==
    \/ Handshake
    \/ ActOneBroken
    \/ ActTwoBroken
    \/ ActThreeBroken
    \/ ActReadEnded
    \/ Alter

SpecFail == Init /\ [][NextFail]_vars

(***************************************************************************)
(* The act handlers called one by one, in any order, on either Machine     *)
(***************************************************************************)
MaxActCalls == 3

HonestInitiator == Machine_new(TRUE, LocalStatic("I"), PubOf(LocalStatic("R")))

HonestResponder == Machine_new(FALSE, LocalStatic("R"), PubOf(OtherStatic))

\* the handler calls of a handshake between the two, in order
HonestGenOne == gen_act_one(HonestInitiator, EphemeralGen("I"))

HonestRecvOne == recv_act_one(HonestResponder, HonestGenOne.out)

HonestGenTwo == gen_act_two(HonestRecvOne.m, EphemeralGen("R"))

HonestRecvTwo == recv_act_two(HonestGenOne.m, HonestGenTwo.out)

HonestGenThree == gen_act_three(HonestRecvTwo.m)

\* an act three made by someone who knows only the responder's public key: its
\* first part is encrypted as a Machine just constructed would decrypt it
ForgedActThreeFrom(r) == ActThree_new(0, r.ct, r.tag, r.tag)

ForgedActThree ==
    ForgedActThreeFrom(encrypt_and_hash(SS(HonestResponder),
                                        Serialize(PubOf(OtherStatic))))

ActOnes == {HonestGenOne.out, HonestGenTwo.out}

ActThrees == {HonestGenThree.out, ForgedActThree}

ActCall(s, op, r) ==
    /\ nActs < MaxActCalls
    /\ mach' = [mach EXCEPT ![s] = r.m]
    /\ last' = [op |-> op, side |-> s, ok |-> r.ok, err |-> r.err, pt |-> r.out,
                from |-> 0, to |-> 0, wfrom |-> 0, wto |-> 0, expect |-> None]
    /\ calls' = r.calls
    /\ nActs' = nActs + 1
    /\ UNCHANGED <<wire, pc, result, nWritten, nRead, rOff, marks, tampered,
                   tamperAt, misuse, bulk, unit, conn>>

CallGenActOne ==
    \E s \in Sides : ActCall(s, "gen_act_one", gen_act_one(mach[s], EphemeralGen(s)))

CallRecvActOne ==
    \E s \in Sides, a \in ActOnes :
        ActCall(s, "recv_act_one", recv_act_one(mach[s], a))

CallGenActTwo ==
    \E s \in Sides : ActCall(s, "gen_act_two", gen_act_two(mach[s], EphemeralGen(s)))

CallRecvActTwo ==
    \E s \in Sides, a \in ActOnes :
        ActCall(s, "recv_act_two", recv_act_two(mach[s], a))

CallGenActThree ==
    \E s \in Sides : ActCall(s, "gen_act_three", gen_act_three(mach[s]))

CallRecvActThree ==
    \E s \in Sides, a \in ActThrees :
        ActCall(s, "recv_act_three", recv_act_three(mach[s], a))

NextActs ==
    \/ CallGenActOne \/ CallRecvActOne \/ CallGenActTwo
    \/ CallRecvActTwo \/ CallGenActThree \/ CallRecvActThree

SpecActs == InitWith(PubOf(LocalStatic("R"))) /\ [][NextActs]_vars

(***************************************************************************)
(* ConnectionStream::poll, the task that polls it and the sources it polls *)
(***************************************************************************)
MaxCommands == 2

MaxIncoming == 1

\* address.connect(secret, remote_public): a future not polled yet
Outgoing_new(id) == [id |-> id, st |-> "pending", parked |-> FALSE]

Completed(f) == f.st \in {"done", "failed"}

PollResult(c, res, item) == [c |-> c, res |-> res, item |-> item]

\* for r in self.outgoing.iter_mut() { if let Ready(t) = r.poll()? { return .. } }
\* from position i on. A future in progress returns NotReady and will notify
\* the task; one whose dial and handshake are over returns its result; one that
\* has returned its result before is polled all the same: `again` is what such
\* a poll does, panic or return NotReady.
RECURSIVE poll_outgoing(_, _, _)
poll_outgoing(c, i, again) ==
    IF i > Len(c.outgoing)
    THEN PollResult(c, "NotReady", None)
    ELSE IF c.outgoing[i].st = "pending"
    THEN poll_outgoing([c EXCEPT !.outgoing[i].parked = TRUE], i + 1, again)
    ELSE IF c.outgoing[i].st = "ready"
    THEN PollResult([c EXCEPT !.outgoing[i].st = "done", !.outgoing[i].parked = FALSE],
                    "Ready", Some(c.outgoing[i].id))
    ELSE IF c.outgoing[i].st = "failing"
    THEN PollResult([c EXCEPT !.outgoing[i].st = "failed", !.outgoing[i].parked = FALSE],
                    "Err", Some(c.outgoing[i].id))
    ELSE IF again = "panic"
    THEN PollResult([c EXCEPT !.repolled = TRUE, !.panicked = TRUE], "panic", None)
    ELSE poll_outgoing([c EXCEPT !.repolled = TRUE], i + 1, again)

\* self.incoming.poll()? with the control stream NotReady; an incoming
\* connection is item 0, the outgoing one of the n-th command is item n
poll_incoming(c, again) ==
    IF c.incoming > 0
    THEN PollResult([c EXCEPT !.incoming = @ - 1], "Ready", Some(0))
    ELSE poll_outgoing([c EXCEPT !.incomingParked = TRUE], 1, again)

\* ConnectionStream::poll
ConnectionStream_poll(c, again) ==
    IF c.control # <<>>
    THEN PollResult([c EXCEPT !.control = Tail(@),
                              !.outgoing = Append(@, Outgoing_new(Head(c.control)))],
                    "NotReady", None)
    ELSE poll_incoming([c EXCEPT !.controlParked = TRUE], again)

\* what the consumer of the stream does with the result: an item or an error is
\* taken and the stream is polled again; after NotReady the task sleeps until a
\* source that holds it notifies it
Polled(r) ==
    conn' = [r.c EXCEPT !.notified = r.res \in {"Ready", "Err"},
                        !.yielded  = IF r.res = "Ready" THEN Append(@, Unwrap(r.item))
                                     ELSE @]

Others == <<mach, wire, pc, result, nWritten, nRead, rOff, marks, tampered,
            tamperAt, misuse, last, calls, bulk, unit, nActs>>

\* the executor polls the task
PollTask ==
    /\ conn.notified
    /\ ~conn.panicked
    /\ \E again \in {"panic", "NotReady"} :
          Polled(ConnectionStream_poll([conn EXCEPT !.notified = FALSE], again))
    /\ UNCHANGED Others

\* a Connect command is delivered on the control stream
Deliver ==
    /\ conn.sent < MaxCommands
    /\ conn' = [conn EXCEPT !.control       = Append(@, conn.sent + 1),
                            !.sent          = @ + 1,
                            !.notified      = @ \/ conn.controlParked,
                            !.controlParked = FALSE]
    /\ UNCHANGED Others

\* a peer connects and completes its handshake
Arrive ==
    /\ conn.arrived < MaxIncoming
    /\ conn' = [conn EXCEPT !.incoming       = @ + 1,
                            !.arrived        = @ + 1,
                            !.notified       = @ \/ conn.incomingParked,
                            !.incomingParked = FALSE]
    /\ UNCHANGED Others

\* dial and handshake of an outgoing connection are over, successfully or not
Complete ==
    \E i \in 1..Len(conn.outgoing), st \in {"ready", "failing"} :
        /\ conn.outgoing[i].st = "pending"
        /\ conn' = [conn EXCEPT !.outgoing[i].st     = st,
                                !.outgoing[i].parked = FALSE,
                                !.notified = @ \/ conn.outgoing[i].parked]
        /\ UNCHANGED Others

NextConn == PollTask \/ Deliver \/ Arrive \/ Complete

SpecConn == InitWith(PubOf(LocalStatic("R"))) /\ [][NextConn]_vars

\* the executor polls a notified task; a dial in progress comes to an end
SpecConnLive == SpecConn /\ WF_conn(PollTask) /\ WF_conn(Complete)

(***************************************************************************)
(* Handshake liveness.  Each side runs handshake() on a thread of its own  *)
(* and blocks only in read_exact, so a handshake step whose act has        *)
(* arrived is eventually taken: weak fairness of each step.  The fairness  *)
(* is stated on what the step does to pc: a step is enabled exactly when   *)
(* its guard holds, it is the only step that moves pc[s] from there, and   *)
(* it moves pc[s] to the next read or to the returned result.              *)
(***************************************************************************)
ActOneDue == pc["I"] = "new"

ActTwoDue == pc["R"] = "new" /\ BLen(wire["R"]) >= ACT_ONE_SIZE

ActThreeDue == pc["I"] = "wait_act_two" /\ BLen(wire["I"]) >= ACT_ONE_SIZE

ActThreeArrived == pc["R"] = "wait_act_three" /\ BLen(wire["R"]) >= ACT_THREE_SIZE

Moves(s, due, to) == due /\ pc' \in {[pc EXCEPT ![s] = v] : v \in to}

HandshakeFairness ==
    /\ WF_pc(Moves("I", ActOneDue, {"wait_act_two"}))
    /\ WF_pc(Moves("R", ActTwoDue, {"wait_act_three", "err"}))
    /\ WF_pc(Moves("I", ActThreeDue, {"ok", "err"}))
    /\ WF_pc(Moves("R", ActThreeArrived, {"ok", "err"}))

WriteLive ==
    \E s \in Sides, p \in Payloads :
        /\ pc[s] = "ok"
        /\ nWritten["I"] + nWritten["R"] < MaxRecords
        /\ WriteMessage(s, p)

ReadLive == \E s \in Sides : pc[s] = "ok" /\ ReadMessage(s)

NextLive == Handshake \/ WriteLive \/ ReadLive

SpecLive ==
    /\ InitWith(PubOf(LocalStatic("R")))
    /\ [][NextLive]_vars
    /\ HandshakeFairness

(***************************************************************************)
(* Properties                                                              *)
(***************************************************************************)
Clean == ~tampered /\ ~misuse

BothOk == IsSome(result["I"].key) /\ IsSome(result["R"].key)

SplitKeys(m) == HkdfExpand64(SS(m).chaining_key, <<>>)

\* the cipher state k successful records after split gave it salt and key
RECURSIVE Ratchet(_, _, _)
Ratchet(salt, key, turns) ==
    IF turns = 0
    THEN [salt |-> salt, secret_key |-> key]
    ELSE Ratchet(BTake(HkdfExpand64(salt, key), 32),
                 BDrop(HkdfExpand64(salt, key), 32), turns - 1)

AfterRecords(salt, key, k) ==
    [nonce      |-> (2 * k) % KEY_ROTATION_INTERVAL,
     salt       |-> Ratchet(salt, key, (2 * k) \div KEY_ROTATION_INTERVAL).salt,
     secret_key |-> Ratchet(salt, key, (2 * k) \div KEY_ROTATION_INTERVAL).secret_key]

\* C1: between two sides that completed the handshake, on an unaltered stream,
\* write_message accepts every payload of 0..65535 bytes and every read_message
\* returns exactly the oldest payload not yet delivered, consuming exactly the
\* bytes of its record, in both directions.
C1_RoundTrip ==
    /\ (last.op = "write" /\ Clean /\ BLen(last.pt) <= U16_MAX) => last.ok
    /\ (last.op = "read" /\ Clean) =>
          /\ last.ok
          /\ last.expect = Some([from |-> last.from, to |-> last.to, p |-> last.pt])

C1_Witness ==
    /\ Clean
    /\ last.op = "read"
    /\ last.ok
    /\ nRead[last.side] = 2
    /\ BLen(last.pt) = U16_MAX

\* C2: once handshake() has returned Ok on both sides, the initiator's send key
\* is the responder's receive key, the initiator's receive key is the responder's
\* send key, and both hold the same handshake digest and the same chaining key.
C2_KeyAgreement ==
    BothOk =>
        /\ mach["I"].send_cipher.secret_key = mach["R"].recv_cipher.secret_key
        /\ mach["I"].recv_cipher.secret_key = mach["R"].send_cipher.secret_key
        /\ mach["I"].send_cipher.secret_key = BTake(SplitKeys(mach["I"]), 32)
        /\ mach["I"].recv_cipher.secret_key = BDrop(SplitKeys(mach["I"]), 32)
        /\ SS(mach["I"]).handshake_digest = SS(mach["R"]).handshake_digest
        /\ SS(mach["I"]).chaining_key = SS(mach["R"]).chaining_key

C2_Witness ==
    /\ BothOk
    /\ last.op = "handshake"
    /\ last.side = "R"
    /\ mach["I"].send_cipher.secret_key # mach["I"].recv_cipher.secret_key
    /\ SS(mach["R"]).chaining_key # Zeros(32)

\* C3: when the initiator is configured with the responder's static key and the
\* stream delivers the acts in order, both handshake() calls eventually return
\* Ok; the initiator returns the configured responder key and the responder
\* returns the initiator's static public key, learned from act three.
C3_HandshakeCompletes ==
    /\ <>(pc["I"] = "ok" /\ pc["R"] = "ok" /\ BothOk)
    /\ [](\A s \in Sides :
            result[s].err = ""
            /\ (IsSome(result[s].key) =>
                    result[s].key = Some(PubOf(LocalStatic(Peer(s))))))

C3_Witness ==
    /\ pc["I"] = "ok"
    /\ pc["R"] = "ok"
    /\ result["I"].key = Some(PubOf(LocalStatic("R")))
    /\ result["R"].key = Some(PubOf(LocalStatic("I")))
    /\ nWritten["I"] + nWritten["R"] = 0

\* C4: after the handshake, whenever a side has read as many records as its peer
\* has written in that direction, the peer's send_cipher and the side's
\* recv_cipher hold the same key, salt and nonce, also past the 500th record, and
\* every read of the stream succeeds.
C4_CiphersInStep ==
    BothOk =>
        /\ \A s \in Sides :
              nRead[s] = nWritten[Peer(s)] =>
                  mach[Peer(s)].send_cipher = mach[s].recv_cipher
        /\ last.op = "read" => last.ok

C4_Witness ==
    /\ BothOk
    /\ nWritten[bulk] = MaxRotRecords
    /\ nRead[Peer(bulk)] = MaxRotRecords
    /\ mach[bulk].send_cipher = mach[Peer(bulk)].recv_cipher
    /\ mach[bulk].send_cipher.secret_key
          # BTake(SplitKeys(mach[bulk]), 32)
    /\ mach[bulk].send_cipher.secret_key
          # BDrop(SplitKeys(mach[bulk]), 32)

\* C5: in both CipherState implementations the stored nonce stays within
\* 0..999 and equals the number of successful operations modulo 1000, and the
\* k-th successful operation ran the AEAD with nonce (k - 1) mod 1000 in the
\* last eight bytes, little-endian, after four zero bytes.
C5_NonceSequence ==
    /\ unit.a.nonce \in 0 .. (KEY_ROTATION_INTERVAL - 1)
    /\ unit.b.nonce \in 0 .. (KEY_ROTATION_INTERVAL - 1)
    /\ unit.a.nonce = unit.ops % 1000
    /\ unit.b.nonce = unit.ops % 1000
    /\ (unit.op # "none" /\ unit.ok) =>
          /\ unit.used[2] = EncodeNonce((unit.ops - 1) % 1000)
          /\ unit.used[2][5] = ((unit.ops - 1) % 1000) % 256
          /\ unit.used[2][6] = ((unit.ops - 1) % 1000) \div 256

C5_Witness ==
    /\ unit.ops = KEY_ROTATION_INTERVAL + 1
    /\ unit.ok
    /\ unit.a.nonce = 1
    /\ unit.b.nonce = 1
    /\ unit.pa.nonce = 0

\* C6: the first 999 successful operations leave key and salt as initialised;
\* the 1000th still runs under the old key and then sets the salt to
\* HKDF(salt, key)[0..32], the key to HKDF(salt, key)[32..64] and the nonce to
\* 0; the 1001st runs under the new key with nonce 0.
C6_Rotation ==
    /\ unit.ops < KEY_ROTATION_INTERVAL =>
          /\ unit.a.secret_key = unit.key0 /\ unit.a.salt = unit.salt0
          /\ unit.b.secret_key = unit.key0 /\ unit.b.salt = unit.salt0
    /\ (unit.ops \in 1 .. KEY_ROTATION_INTERVAL /\ unit.ok) =>
          unit.used[1] = unit.key0
    /\ (unit.ops >= KEY_ROTATION_INTERVAL /\ unit.ops < 2 * KEY_ROTATION_INTERVAL) =>
          /\ unit.a = [nonce      |-> unit.ops - KEY_ROTATION_INTERVAL,
                       salt       |-> BTake(HkdfExpand64(unit.salt0, unit.key0), 32),
                       secret_key |-> BDrop(HkdfExpand64(unit.salt0, unit.key0), 32)]
          /\ unit.b = unit.a
    /\ (unit.ops = KEY_ROTATION_INTERVAL + 1 /\ unit.ok) =>
          unit.used = <<BDrop(HkdfExpand64(unit.salt0, unit.key0), 32), EncodeNonce(0)>>

C6_Witness ==
    /\ unit.ops = KEY_ROTATION_INTERVAL
    /\ unit.ok
    /\ unit.pa.nonce = KEY_ROTATION_INTERVAL - 1
    /\ unit.pa.secret_key = unit.key0
    /\ unit.a.nonce = 0
    /\ unit.a.secret_key # unit.key0
    /\ unit.a.salt # unit.salt0

\* C7: every successful write_message advances send_cipher by exactly two
\* operations and every successful read_message advances recv_cipher by exactly
\* two; the key is rotated by the second operation of every 500th record and by
\* no other operation, so never between a record's header and its body.
C7_TwoOpsPerRecord ==
    /\ \A s \in Sides :
          BothOk =>
              /\ mach[s].send_cipher =
                    AfterRecords(SS(mach[s]).chaining_key,
                                 IF s = "I" THEN BTake(SplitKeys(mach[s]), 32)
                                            ELSE BDrop(SplitKeys(mach[s]), 32),
                                 nWritten[s])
              /\ mach[s].recv_cipher =
                    AfterRecords(SS(mach[s]).chaining_key,
                                 IF s = "I" THEN BDrop(SplitKeys(mach[s]), 32)
                                            ELSE BTake(SplitKeys(mach[s]), 32),
                                 nRead[s])
    /\ (last.op \in {"write", "read"} /\ last.ok) =>
          /\ Len(calls) = 2
          /\ calls[1].ok /\ calls[2].ok
          /\ calls[1].op = (IF last.op = "write" THEN "encrypt" ELSE "decrypt")
          /\ calls[2].op = calls[1].op
          /\ calls[2].pre = calls[1].post
          /\ calls[1].post.secret_key = calls[1].pre.secret_key
          /\ calls[1].post.nonce = calls[1].pre.nonce + 1
          /\ (calls[2].post.secret_key # calls[2].pre.secret_key)
                <=> ((IF last.op = "write" THEN nWritten[last.side]
                                           ELSE nRead[last.side]) % 500 = 0)

C7_Witness ==
    /\ last.op = "read"
    /\ last.ok
    /\ nRead[last.side] = 500
    /\ Len(calls) = 2
    /\ calls[1].pre.nonce = 998
    /\ calls[2].pre.nonce = 999
    /\ calls[2].post.nonce = 0
    /\ calls[2].post.secret_key # calls[2].pre.secret_key

\* C8: in both CipherState implementations a decrypt whose tag does not verify
\* returns an error and leaves key, salt and nonce as they were.
C8_FailedDecryptKeepsState ==
    /\ (unit.op = "decrypt" /\ ~unit.ok) => (unit.a = unit.pa /\ unit.b = unit.pb)
    /\ unit.op = "encrypt" => unit.ok

C8_Witness ==
    /\ unit.op = "decrypt"
    /\ ~unit.ok
    /\ unit.ops = KEY_ROTATION_INTERVAL - 1
    /\ unit.a = unit.pa
    /\ unit.b = unit.pb
    /\ unit.a.nonce = KEY_ROTATION_INTERVAL - 1

\* C9: a decrypt_and_hash whose tag does not verify leaves the handshake digest,
\* the chaining key and the inner cipher's key and nonce as they were, and the
\* handler returns with that state; a decrypt_and_hash that verifies extends the
\* digest with ciphertext and tag and advances the inner nonce by one.
C9_FailedDecryptAndHashKeepsState ==
    /\ \A i \in 1 .. Len(calls) :
          calls[i].op = "decrypt_and_hash" =>
              IF calls[i].ok
              THEN /\ calls[i].post.handshake_digest[1].v[1] = "sha"
                   /\ BTake(calls[i].post.handshake_digest[1].v[2], 32)
                         = calls[i].pre.handshake_digest
                   /\ BLen(calls[i].post.handshake_digest[1].v[2]) >= 32 + MAC_SIZE
                   /\ calls[i].post.chaining_key = calls[i].pre.chaining_key
                   /\ calls[i].post.cipher_state.nonce
                         = calls[i].pre.cipher_state.nonce + 1
              ELSE calls[i].post = calls[i].pre
    /\ (last.op = "handshake" /\ last.err = "Io") =>
          /\ calls # <<>>
          /\ calls[Len(calls)].op = "decrypt_and_hash"
          /\ ~calls[Len(calls)].ok
          /\ SS(mach[last.side]) = calls[Len(calls)].pre

C9_Witness ==
    /\ last.op = "handshake"
    /\ last.err = "Io"
    /\ tampered
    /\ Len(calls) = 2
    /\ calls[1].ok
    /\ ~calls[2].ok
    /\ SS(mach[last.side]) = calls[2].pre

\* C10: read_message never returns Ok for bytes that include a byte altered in
\* flight, whichever of the record's four fields the byte is in; it returns an
\* error.
C10_AlteredRecordRejected ==
    (last.op = "read" /\ tamperAt[last.side] >= last.from
                      /\ tamperAt[last.side] < last.to) =>
        (~last.ok /\ last.err = "Io")

C10_Witness ==
    /\ last.op = "read"
    /\ ~last.ok
    /\ ~misuse
    /\ tamperAt[last.side] >= last.from + HeaderSize
    /\ tamperAt[last.side] < last.to
    /\ last.to - last.from = HeaderSize + U16_MAX + MAC_SIZE

AlteredInLast == tamperAt[last.side] >= last.from /\ tamperAt[last.side] < last.to

\* C11: when read_message fails on a record with an altered byte, in the header
\* or in the body, recv_cipher (key, salt, nonce) after the call is what it was
\* before the call.
C11_FailedReadKeepsRecvCipher ==
    (last.op = "read" /\ ~last.ok /\ ~misuse /\ AlteredInLast) =>
        mach[last.side].recv_cipher = calls[1].pre

\* the altered byte is in the body: the header was decrypted, the nonce moved on
C11_Witness ==
    /\ last.op = "read"
    /\ ~last.ok
    /\ ~misuse
    /\ tamperAt[last.side] >= last.from + HeaderSize
    /\ tamperAt[last.side] < last.to
    /\ Len(calls) = 2
    /\ calls[1].ok
    /\ ~calls[2].ok
    /\ mach[last.side].recv_cipher.nonce = calls[1].pre.nonce + 1
    /\ mach[last.side].recv_cipher.secret_key = calls[1].pre.secret_key

\* C12: within one direction read_message returns payloads only in the order
\* they were written: the k-th successful read returns the k-th payload
\* submitted; when two adjacent records reach the receiver in the other order,
\* the read that starts at the first of them fails tag verification.
C12_ReorderDetected ==
    /\ (last.op = "read" /\ last.ok) =>
          \E n \in NetLengths : last.pt = SeqPayload(nRead[last.side], n)
    /\ (last.op = "read" /\ last.from = tamperAt[last.side]) =>
          /\ ~last.ok
          /\ last.err = "Io"
          /\ Len(calls) = 1
          /\ calls[1].op = "decrypt"
          /\ ~calls[1].ok

C12_Witness ==
    /\ last.op = "read"
    /\ ~last.ok
    /\ tampered
    /\ last.from = tamperAt[last.side]
    /\ nRead[last.side] = 1
    /\ marks[last.side] # <<>>

\* C13: write_message with a payload longer than 65535 bytes returns a
\* MaxMessageLengthExceeded error to the caller, writes no bytes to the stream
\* and leaves send_cipher unchanged.
C13_OversizeWriteReturnsError ==
    (last.op = "write" /\ BLen(last.pt) > U16_MAX) =>
        /\ ~last.ok
        /\ last.err = "MaxMessageLengthExceeded"
        /\ last.wto = last.wfrom
        /\ calls = <<>>

\* the call does not return: it panics, before any byte or cipher operation
C13_Witness ==
    /\ last.op = "write"
    /\ BLen(last.pt) = U16_MAX + 1
    /\ ~last.ok
    /\ last.err = "panic"
    /\ last.wto = last.wfrom
    /\ calls = <<>>
    /\ mach[last.side].send_cipher.nonce = 2 * nWritten[last.side]
    /\ nWritten[last.side] > 0

\* C14: write_message or read_message called on a Machine whose handshake has
\* not returned Ok fails with NotInitialized, emits and consumes no bytes and
\* makes no cipher operation (so none under the initial all-zero key).
C14_RecordCallNeedsHandshake ==
    (last.op \in {"write", "read"} /\ ~IsSome(result[last.side].key)) =>
        /\ ~last.ok
        /\ last.err = "NotInitialized"
        /\ last.to = last.from
        /\ last.wto = last.wfrom
        /\ calls = <<>>

\* write_message on a new Machine returns Ok and emits a record under the zero key
C14_Witness ==
    /\ last.op = "write"
    /\ last.ok
    /\ pc[last.side] = "new"
    /\ ~IsSome(result[last.side].key)
    /\ Len(calls) = 2
    /\ calls[1].pre.secret_key = Zeros(32)
    /\ calls[2].pre.secret_key = Zeros(32)
    /\ last.wto = last.wfrom + HeaderSize + BLen(last.pt) + MAC_SIZE

\* C15: once a call on a Machine has returned an error, every later call of
\* handshake, write_message or read_message on that Machine fails as well.
C15_FailureIsTerminal ==
    (last.op \in {"handshake", "write", "read"} /\ pc[last.side] = "err") => ~last.ok

\* read_message failed on an altered record; write_message on the same Machine
\* then returns Ok and the record goes out
C15_Witness ==
    /\ last.op = "write"
    /\ last.ok
    /\ pc[last.side] = "err"
    /\ IsSome(result[last.side].key)
    /\ tamperAt[last.side] >= 0
    /\ tamperAt[last.side] < rOff[last.side]
    /\ last.wto > last.wfrom
    /\ calls[1].pre.secret_key # Zeros(32)

\* the handshake state of each side before it receives an act, when every act so
\* far arrived as sent
ResponderAtActOne ==
    Machine_new(FALSE, LocalStatic("R"), PubOf(OtherStatic))

InitiatorSentActOne ==
    gen_act_one(Machine_new(TRUE, LocalStatic("I"),
                            mach["I"].handshake_state.remote_static),
                EphemeralGen("I"))

InitiatorAtActTwo == InitiatorSentActOne.m

ResponderAtActThree ==
    gen_act_two(recv_act_one(ResponderAtActOne, InitiatorSentActOne.out).m,
                EphemeralGen("R")).m

\* C16: a received act whose first byte is not 0 is rejected with the handshake
\* version error after all its 50 bytes (66 for act three) were consumed, with
\* no cipher operation and no act written, and the handshake state (digest,
\* chaining key, cipher key and nonce, ephemeral and static keys) is what it was
\* before the act arrived.
C16_BadVersionRejectedFirst ==
    (last.op = "handshake" /\ last.err = "UnknownHandshakeVersion") =>
        /\ ~last.ok
        /\ calls = <<>>
        /\ last.wto = last.wfrom
        /\ last.to - last.from \in {ACT_ONE_SIZE, ACT_THREE_SIZE}
        /\ last.side = "I" =>
              /\ last.to - last.from = ACT_ONE_SIZE
              /\ mach["I"].handshake_state = InitiatorAtActTwo.handshake_state
        /\ (last.side = "R" /\ last.to - last.from = ACT_ONE_SIZE) =>
              mach["R"].handshake_state = ResponderAtActOne.handshake_state
        /\ (last.side = "R" /\ last.to - last.from = ACT_THREE_SIZE) =>
              mach["R"].handshake_state = ResponderAtActThree.handshake_state

C16_Witness ==
    /\ last.op = "handshake"
    /\ last.side = "R"
    /\ last.err = "UnknownHandshakeVersion"
    /\ ~misuse
    /\ tamperAt["R"] = 0
    /\ last.from = 0
    /\ last.to = ACT_ONE_SIZE
    /\ ~IsSome(mach["R"].handshake_state.remote_ephemeral)
    /\ SS(mach["R"]) = SS(ResponderAtActOne)

\* the initiator was constructed with a key that is not the responder's static key
WrongKey == mach["I"].handshake_state.remote_static # PubOf(LocalStatic("R"))

\* C17: when the initiator was configured with a wrong responder static key the
\* responder's processing of act one fails in the tag verification, the
\* responder never sends act two, and neither side reaches the record layer.
C17_WrongKeyFailsAtActOne ==
    WrongKey =>
        /\ pc["R"] \notin {"wait_act_three", "ok"}
        /\ pc["I"] # "ok"
        /\ ~IsSome(result["I"].key)
        /\ ~IsSome(result["R"].key)
        /\ last.op # "act_two"
        /\ last.op = "handshake" => ~last.ok
        /\ ~misuse => (BLen(wire["I"]) = 0 /\ rOff["I"] = 0)
        /\ (Clean /\ last.op = "handshake") =>
              /\ last.side = "R"
              /\ last.err = "Io"
              /\ last.from = 0
              /\ last.to = ACT_ONE_SIZE
              /\ last.wto = last.wfrom
              /\ Len(calls) = 1
              /\ calls[1].op = "decrypt_and_hash"
              /\ ~calls[1].ok

C17_Witness ==
    /\ WrongKey
    /\ Clean
    /\ last.op = "handshake"
    /\ last.side = "R"
    /\ last.err = "Io"
    /\ pc["R"] = "err"
    /\ pc["I"] = "wait_act_two"
    /\ result["R"] = [err |-> "Io", key |-> None]
    /\ Len(calls) = 1
    /\ ~calls[1].ok
    /\ BLen(wire["I"]) = 0

\* C18 as stated: with a wrong responder static key the handshake failure is the
\* initiator's, a tag verification failure while it processes act two.
C18_FailsAtActTwo ==
    (WrongKey /\ Clean /\ last.op = "handshake" /\ ~last.ok) =>
        /\ last.side = "I"
        /\ pc["R"] = "wait_act_three"
        /\ Len(calls) = 1
        /\ ~calls[1].ok

\* C18: with a wrong responder static key the handshake failure is a tag
\* verification failure on act one, while the responder processes the
\* initiator's act one: the failing handshake() call is the responder's, it has
\* read the first 50 bytes of its stream and made one decrypt_and_hash, which
\* failed; the initiator receives no act two and its handshake() never returns.
C18_FailsAtResponderActOne ==
    (WrongKey /\ ~misuse) =>
        /\ result["I"] = NoResult
        /\ pc["I"] \in {"new", "wait_act_two"}
        /\ rOff["I"] = 0
        /\ last.op = "handshake" =>
              /\ last.side = "R"
              /\ ~last.ok
              /\ last.from = 0
              /\ last.to = ACT_ONE_SIZE
              /\ result["R"].err = last.err
              /\ ~tampered =>
                    /\ last.err = "Io"
                    /\ calls # <<>>
                    /\ calls[Len(calls)].op = "decrypt_and_hash"
                    /\ ~calls[Len(calls)].ok
                    /\ Len(calls) = 1

C18_Witness ==
    /\ WrongKey
    /\ ~misuse
    /\ ~tampered
    /\ last = [op |-> "handshake", side |-> "R", ok |-> FALSE, err |-> "Io",
               pt |-> <<>>, from |-> 0, to |-> ACT_ONE_SIZE,
               wfrom |-> 0, wto |-> 0, expect |-> None]
    /\ rOff["R"] = ACT_ONE_SIZE
    /\ result["I"] = NoResult
    /\ calls[1].op = "decrypt_and_hash"
    /\ ~calls[1].ok

\* the bytes the last step appended to its peer's stream
LastWritten ==
    BDrop(wire[Peer(last.side)],
          BLen(wire[Peer(last.side)]) - (last.wto - last.wfrom))

\* the first byte of what the last step wrote is as written and is 0
VersionZero ==
    tamperAt[Peer(last.side)] # last.wfrom => BTake(LastWritten, 1) = <<Byte(0)>>

CallOps == [i \in 1..Len(calls) |-> calls[i].op]

AllCallsOk == \A i \in 1..Len(calls) : calls[i].ok

\* C19: the stream operations of a handshake come in a fixed order and size.
\* The initiator writes 50 bytes (act one), then reads 50 (act two), then writes
\* 66 (act three); the responder reads 50, then writes 50, then reads 66. Each
\* act written starts with byte 0, an act is written only after the act
\* received in the same step verified, and a step that fails writes nothing.
C19_HandshakeStreamOrder ==
    /\ last.op = "act_one" =>
          /\ last.side = "I"
          /\ last.to = last.from
          /\ last.wto - last.wfrom = ACT_ONE_SIZE
          /\ BLen(LastWritten) = ACT_ONE_SIZE
          /\ VersionZero
          /\ CallOps = <<"encrypt_and_hash">>
          /\ pc["I"] = "wait_act_two"
          /\ ~misuse => (last.from = 0 /\ last.wfrom = 0)
    /\ last.op = "act_two" =>
          /\ last.side = "R"
          /\ last.to - last.from = ACT_ONE_SIZE
          /\ last.wto - last.wfrom = ACT_ONE_SIZE
          /\ BLen(LastWritten) = ACT_ONE_SIZE
          /\ VersionZero
          /\ CallOps = <<"decrypt_and_hash", "encrypt_and_hash">>
          /\ AllCallsOk
          /\ pc["R"] = "wait_act_three"
          /\ ~misuse => (last.from = 0 /\ last.wfrom = 0)
    /\ (last.op = "handshake" /\ last.ok /\ last.side = "I") =>
          /\ last.to - last.from = ACT_ONE_SIZE
          /\ last.wto - last.wfrom = ACT_THREE_SIZE
          /\ BLen(LastWritten) = ACT_THREE_SIZE
          /\ VersionZero
          /\ CallOps = <<"decrypt_and_hash", "encrypt_and_hash", "encrypt_and_hash">>
          /\ AllCallsOk
          /\ ~misuse => (last.from = 0 /\ last.wfrom = ACT_ONE_SIZE)
    /\ (last.op = "handshake" /\ last.ok /\ last.side = "R") =>
          /\ last.to - last.from = ACT_THREE_SIZE
          /\ last.wto = last.wfrom
          /\ CallOps = <<"decrypt_and_hash", "decrypt_and_hash">>
          /\ AllCallsOk
          /\ ~misuse => (last.from = ACT_ONE_SIZE /\ last.wfrom = ACT_ONE_SIZE)
    /\ (last.op = "handshake" /\ ~last.ok) =>
          /\ last.wto = last.wfrom
          /\ last.to - last.from =
                IF last.side = "R" /\ IsSome(mach["R"].handshake_state.local_ephemeral)
                THEN ACT_THREE_SIZE ELSE ACT_ONE_SIZE
    /\ pc["I"] = "new" => (~misuse => WEnd("R") = 0)
    /\ pc["R"] = "new" => (~misuse => (WEnd("I") = 0 /\ rOff["R"] = 0))
    /\ pc["R"] = "wait_act_three" => pc["I"] # "new"
    /\ (pc["I"] = "ok" /\ IsSome(result["I"].key)) => pc["R"] # "new"

C19_Witness ==
    /\ Clean
    /\ last.op = "handshake"
    /\ last.ok
    /\ last.side = "R"
    /\ last.from = ACT_ONE_SIZE
    /\ last.to = ACT_ONE_SIZE + ACT_THREE_SIZE
    /\ WEnd("R") = ACT_ONE_SIZE + ACT_THREE_SIZE
    /\ WEnd("I") = ACT_ONE_SIZE
    /\ pc["I"] = "ok"
    /\ pc["R"] = "ok"

\* what split gives a cipher: the final chaining key as salt, the given half of
\* the derived 64 bytes as key, nonce 0
SplitCipher(m, key) ==
    [nonce |-> 0, secret_key |-> key, salt |-> SS(m).chaining_key]

\* C20: when handshake() returns Ok, with okm the 64 bytes HKDF gives for the
\* final chaining key as salt and the empty input, the initiator's send key is
\* okm[0..32] and its receive key okm[32..64], the responder's receive key is
\* okm[0..32] and its send key okm[32..64], the salt of both ciphers is the
\* final chaining key and both nonces are 0.
C20_SplitAssignsKeys ==
    (last.op = "handshake" /\ last.ok) =>
        /\ last.side = "I" =>
              /\ mach["I"].send_cipher =
                    SplitCipher(mach["I"], BSlice(SplitKeys(mach["I"]), 0, 32))
              /\ mach["I"].recv_cipher =
                    SplitCipher(mach["I"], BSlice(SplitKeys(mach["I"]), 32, 64))
        /\ last.side = "R" =>
              /\ mach["R"].recv_cipher =
                    SplitCipher(mach["R"], BSlice(SplitKeys(mach["R"]), 0, 32))
              /\ mach["R"].send_cipher =
                    SplitCipher(mach["R"], BSlice(SplitKeys(mach["R"]), 32, 64))
        /\ BLen(SplitKeys(mach[last.side])) = 64
        /\ SS(mach[last.side]).chaining_key # Zeros(32)

C20_Witness ==
    /\ last.op = "handshake"
    /\ last.ok
    /\ last.side = "R"
    /\ mach["R"].send_cipher =
          SplitCipher(mach["R"], BDrop(SplitKeys(mach["R"]), 32))
    /\ mach["R"].send_cipher.salt # Zeros(32)
    /\ mach["R"].recv_cipher.secret_key # mach["R"].send_cipher.secret_key

\* the key split gave side s for sending and for receiving
SendKey(s) ==
    IF mach[s].handshake_state.initiator
    THEN BTake(SplitKeys(mach[s]), 32) ELSE BDrop(SplitKeys(mach[s]), 32)

RecvKey(s) ==
    IF mach[s].handshake_state.initiator
    THEN BDrop(SplitKeys(mach[s]), 32) ELSE BTake(SplitKeys(mach[s]), 32)

\* a write_message call of s leaves its recv_cipher alone, a read_message call
\* its send_cipher
OtherDirectionKept ==
    \A s \in Sides :
        /\ (last'.op = "write" /\ last'.side = s) =>
              mach'[s].recv_cipher = mach[s].recv_cipher
        /\ (last'.op = "read" /\ last'.side = s) =>
              mach'[s].send_cipher = mach[s].send_cipher

\* each cipher of s is where its own direction alone would have taken it
OwnSchedule ==
    \A s \in Sides :
        /\ IsSome(result[s].key) =>
              mach[s].send_cipher =
                  AfterRecords(SS(mach[s]).chaining_key, SendKey(s), nWritten[s])
        /\ pc[s] = "ok" =>
              mach[s].recv_cipher =
                  AfterRecords(SS(mach[s]).chaining_key, RecvKey(s), nRead[s])

\* C21: the two directions are independent. A write_message call, successful or
\* not, leaves recv_cipher (key, salt, nonce) as it was, and a read_message call,
\* successful or not, leaves send_cipher as it was; under any interleaving of
\* writes and reads each cipher's nonce and key are those its own direction
\* alone gives: the state 2 * (records of that direction) operations after split.
C21_DirectionsIndependent == []OwnSchedule /\ [][OtherDirectionKept]_vars

C21_Witness ==
    /\ nWritten[bulk] = MaxRotRecords
    /\ nRead[Peer(bulk)] > KEY_ROTATION_INTERVAL \div 2
    /\ nWritten[Peer(bulk)] = MaxBackRecords
    /\ nRead[bulk] = MaxBackRecords
    /\ pc[bulk] = "ok"
    /\ last.op = "read"
    /\ last.side = bulk
    /\ last.ok
    /\ mach[bulk].recv_cipher.nonce = 2 * MaxBackRecords
    /\ mach[bulk].send_cipher.nonce = (2 * MaxRotRecords) % KEY_ROTATION_INTERVAL
    /\ mach[bulk].send_cipher.secret_key # SendKey(bulk)
    /\ mach[bulk].recv_cipher.secret_key = RecvKey(bulk)

\* the last call was a read_message that started at a record's first byte and
\* was handed fewer bytes than the record has
TruncatedRead ==
    /\ last.op = "read"
    /\ IsSome(last.expect)
    /\ last.from = Unwrap(last.expect).from
    /\ last.to < Unwrap(last.expect).to

SomeCallFailed == \E i \in 1..Len(calls) : ~calls[i].ok

\* C22 as stated: a read of a truncated record fails with the reader's error at
\* the short read, except that when exactly the 18 bytes of the length field
\* were delivered it fails in a tag verification.
C22_LengthOnlyIsAuth ==
    TruncatedRead =>
        /\ ~last.ok
        /\ last.to - last.from # HeaderSize =>
              (last.err = "UnexpectedEof" /\ ~SomeCallFailed)
        /\ last.to - last.from = HeaderSize => SomeCallFailed

\* C22: when the reader ends before all bytes of a record (2 + 16 + L + 16 for
\* a payload of L bytes) were delivered, read_message fails with the reader's error at the read that
\* comes up short and no tag verification fails: before the header decrypt
\* when fewer than 18 bytes were delivered, and after a successful header
\* decrypt, which has advanced recv_cipher by one, when the 18 bytes of the
\* length field or more were delivered.
C22_TruncatedRecordFailsAtShortRead ==
    /\ TruncatedRead =>
          /\ Unwrap(last.expect).to - Unwrap(last.expect).from =
                HeaderSize + BLen(Unwrap(last.expect).p) + MAC_SIZE
          /\ ~last.ok
          /\ last.err = "UnexpectedEof"
          /\ ~SomeCallFailed
          /\ last.pt = <<>>
    /\ (last.op = "read" /\ last.err = "UnexpectedEof") =>
          /\ ~last.ok
          /\ pc[last.side] = "err"
          /\ last.to - last.from < HeaderSize => calls = <<>>
          /\ last.to - last.from >= HeaderSize =>
                /\ Len(calls) = 1
                /\ calls[1].op = "decrypt"
                /\ calls[1].ok
                /\ calls[1].post = advance(calls[1].pre)
                /\ mach[last.side].recv_cipher = calls[1].post

C22_Witness ==
    /\ TruncatedRead
    /\ last.err = "UnexpectedEof"
    /\ last.to - last.from = HeaderSize
    /\ Len(calls) = 1
    /\ calls[1].ok
    /\ mach[last.side].recv_cipher.nonce = 2 * nRead[last.side] + 1
    /\ nRead[last.side] = 1

\* C23 as stated: a failed tag verification, in a handshake act or in
\* read_message, is reported as an Auth error, which a failure of the stream
\* (reported as Io) never is.
C23_TagFailureIsAuth ==
    /\ (last.op \in {"handshake", "read"} /\ SomeCallFailed) =>
          (~last.ok /\ last.err = "Auth")
    /\ (last.op \in {"handshake", "read"} /\ ~last.ok /\ ~SomeCallFailed) =>
          last.err # "Auth"

C23_Witness ==
    /\ last.op = "handshake"
    /\ last.side = "I"
    /\ ~last.ok
    /\ ~WrongKey
    /\ ~misuse
    /\ tamperAt["I"] >= 0
    /\ Len(calls) = 1
    /\ calls[1].op = "decrypt_and_hash"
    /\ ~calls[1].ok
    /\ last.err = "Io"
    /\ result["I"].err = "Io"

\* the handler called in this step made no Diffie-Hellman step: the chaining key
\* and the key of the handshake cipher are what they were
NoKeyMixed(s) ==
    /\ SS(mach'[s]).chaining_key = SS(mach[s]).chaining_key
    /\ SS(mach'[s]).cipher_state.secret_key = SS(mach[s]).cipher_state.secret_key

NeedsAbsentKey(s) ==
    \/ /\ last'.op \in {"gen_act_two", "gen_act_three"}
       /\ ~IsSome(mach[s].handshake_state.remote_ephemeral)
    \/ /\ last'.op \in {"recv_act_two", "recv_act_three"}
       /\ ~IsSome(mach[s].handshake_state.local_ephemeral)

AbsentKeyStep ==
    \A s \in Sides :
        (nActs' = nActs + 1 /\ last'.side = s /\ NeedsAbsentKey(s)) =>
            /\ ~last'.ok
            /\ last'.pt = <<>>
            /\ NoKeyMixed(s)
            /\ mach'[s].send_cipher = mach[s].send_cipher
            /\ mach'[s].recv_cipher = mach[s].recv_cipher
            /\ last'.err \in {"NotInitializedYet", "Io"}
            /\ last'.err = "Io" =>
                  /\ last'.op = "recv_act_three"
                  /\ Len(calls') = 1
                  /\ ~calls'[1].ok
            /\ \A i \in 1..Len(calls') : calls'[i].ok =>
                  last'.err = "NotInitializedYet"

C25_EphemeralDiscarded ==
    \A s \in Sides :
        /\ pc[s] = "new" => ~IsSome(mach[s].handshake_state.local_ephemeral)
        /\ pc[s] \in {"wait_act_two", "wait_act_three"} =>
              mach[s].handshake_state.local_ephemeral = Some(EphemeralGen(s))
        /\ IsSome(result[s].key) => ~IsSome(mach[s].handshake_state.local_ephemeral)

C25_Witness ==
    /\ BothOk
    /\ pc["I"] = "ok"
    /\ pc["R"] = "ok"
    /\ mach["I"].handshake_state.local_ephemeral = Some(EphemeralGen("I"))
    /\ mach["R"].handshake_state.local_ephemeral = Some(EphemeralGen("R"))
    /\ nWritten["I"] = 1

\* the four parts of the record write_message makes for payload p when the
\* header is encrypted under cipher state c1 and the body under c2
LenCt(c1, p) ==
    AeadCipherText(c1.secret_key, EncodeNonce(c1.nonce), WriteU16BE(BLen(p)))

LenTag(c1, p) ==
    AeadTag(c1.secret_key, EncodeNonce(c1.nonce), <<>>, LenCt(c1, p))

MsgCt(c2, p) == AeadCipherText(c2.secret_key, EncodeNonce(c2.nonce), p)

MsgTag(c2, p) ==
    AeadTag(c2.secret_key, EncodeNonce(c2.nonce), <<>>, MsgCt(c2, p))

RecordOf(c1, c2, p) ==
    BCat(BCat(BCat(LenCt(c1, p), LenTag(c1, p)), MsgCt(c2, p)), MsgTag(c2, p))

\* the last call was a successful write_message and the network has not touched
\* what it wrote
WroteUntouched ==
    /\ last.op = "write"
    /\ last.ok
    /\ ~(tamperAt[Peer(last.side)] >= last.wfrom /\ tamperAt[Peer(last.side)] < last.wto)

\* C26 as stated: a successful write_message of an L-byte payload emits exactly
\* L + 36 bytes.
C26_RecordIsLPlus36 ==
    (last.op = "write" /\ last.ok) => last.wto - last.wfrom = BLen(last.pt) + 36

\* C26: a successful write_message of an L-byte payload emits exactly L + 34
\* bytes and nothing else, in the order encrypted length (2 bytes), length tag
\* (16), encrypted payload (L), payload tag (16); the encrypted length is the
\* big-endian 16-bit value L, encrypted with empty associated data under
\* send_cipher as it was before the call, and the payload under send_cipher one
\* operation later.
C26_RecordLayout ==
    (last.op = "write" /\ last.ok) =>
        /\ last.wto - last.wfrom = BLen(last.pt) + 34
        /\ last.wto - last.wfrom =
              LENGTH_HEADER_SIZE + MAC_SIZE + BLen(last.pt) + MAC_SIZE
        /\ WEnd(Peer(last.side)) = last.wto
        /\ Len(calls) = 2
        /\ calls[2].pre = calls[1].post
        /\ BLen(LenCt(calls[1].pre, last.pt)) = LENGTH_HEADER_SIZE
        /\ BLen(MsgCt(calls[2].pre, last.pt)) = BLen(last.pt)
        /\ ReadU16BE(AeadPlainText(calls[1].pre.secret_key,
                                   EncodeNonce(calls[1].pre.nonce),
                                   LenCt(calls[1].pre, last.pt))) = BLen(last.pt)
        /\ WriteU16BE(BLen(last.pt)) =
              <<Byte(BLen(last.pt) \div 256), Byte(BLen(last.pt) % 256)>>
        /\ WroteUntouched =>
              LastWritten = RecordOf(calls[1].pre, calls[2].pre, last.pt)

C26_Witness ==
    /\ WroteUntouched
    /\ BLen(last.pt) = 1
    /\ last.wto - last.wfrom = 35
    /\ BTake(LastWritten, LENGTH_HEADER_SIZE)
          = LenCt(mach[Peer(last.side)].recv_cipher, last.pt)
    /\ nWritten[last.side] = 2
    /\ pc[last.side] = "ok"

\* the stream towards the reader of the last call holds an incomplete record,
\* and the call read at or past it
ReadPastBreak ==
    /\ last.op = "read"
    /\ tamperAt[last.side] >= 0
    /\ last.to > tamperAt[last.side]

\* C27: a write_message that fails with the writer's error part-way through a
\* record leaves the send direction out of step: send_cipher has advanced by one
\* or two operations while fewer bytes than a record are on the stream; a later
\* write_message on that Machine still encrypts and returns Ok; and the peer's
\* read_message never returns a payload written after the failure: every read
\* that reaches the incomplete record fails.
C27_PartialWriteDesynchronizes ==
    /\ (last.op = "write" /\ last.err = "BrokenPipe") =>
          /\ ~last.ok
          /\ last.wto - last.wfrom < HeaderSize + BLen(last.pt) + MAC_SIZE
          /\ Len(calls) = (IF last.wto - last.wfrom < HeaderSize THEN 1 ELSE 2)
          /\ mach[last.side].send_cipher = calls[Len(calls)].post
          /\ mach[last.side].send_cipher.nonce = calls[1].pre.nonce + Len(calls)
          /\ tamperAt[Peer(last.side)] = last.wfrom
    /\ (last.op = "write" /\ pc[last.side] = "err") =>
          /\ last.err # "BrokenPipe" => last.ok
          /\ last.ok =>
                /\ Len(calls) = 2
                /\ last.wto - last.wfrom = HeaderSize + BLen(last.pt) + MAC_SIZE
    /\ ReadPastBreak => ~last.ok
    /\ (last.op = "read" /\ last.ok) =>
          \E n \in BreakLengths : last.pt = SeqPayload(nRead[last.side], n)

C27_Witness ==
    /\ ReadPastBreak
    /\ ~last.ok
    /\ misuse
    /\ pc[Peer(last.side)] = "err"
    /\ nWritten[Peer(last.side)] = 2
    /\ nRead[last.side] = 1
    /\ mach[Peer(last.side)].send_cipher.nonce = 6
    /\ mach[last.side].recv_cipher.nonce = 3

\* the digest HandshakeState::new leaves when the key hashed last is pk
InitialDigest(pk) ==
    Sha256(BCat(Sha256(BCat(Sha256(PROTOCOL_NAME),
                            Blob(<<"str", "lightning">>, 9))),
                Serialize(pk)))

\* neither side has started handshake()
JustConstructed == pc["I"] = "new" /\ pc["R"] = "new"

\* C28: right after construction the initiator's handshake digest is
\* SHA256(SHA256(SHA256(protocol name) || "lightning") || the remote key it was
\* given) and the responder's is the same with its own static public key, so
\* the two are identical when the initiator was given the responder's key; on
\* both sides the chaining key is SHA256(protocol name) and the handshake
\* cipher has the all-zero key and nonce 0.
C28_InitialTranscript ==
    JustConstructed =>
        /\ SS(mach["I"]).handshake_digest =
              InitialDigest(mach["I"].handshake_state.remote_static)
        /\ SS(mach["R"]).handshake_digest = InitialDigest(PubOf(LocalStatic("R")))
        /\ ~WrongKey =>
              SS(mach["I"]).handshake_digest = SS(mach["R"]).handshake_digest
        /\ WrongKey =>
              SS(mach["I"]).handshake_digest # SS(mach["R"]).handshake_digest
        /\ \A s \in Sides :
              /\ SS(mach[s]).chaining_key = Sha256(PROTOCOL_NAME)
              /\ SS(mach[s]).cipher_state.secret_key = Zeros(32)
              /\ SS(mach[s]).cipher_state.nonce = 0
              /\ SS(mach[s]).handshake_digest # SS(mach[s]).chaining_key

C28_Witness ==
    /\ JustConstructed
    /\ last.op = "none"
    /\ ~WrongKey
    /\ SS(mach["I"]) = SS(mach["R"])
    /\ SS(mach["I"]).handshake_digest = InitialDigest(PubOf(LocalStatic("R")))
    /\ mach["R"].handshake_state.remote_static # PubOf(LocalStatic("R"))

\* what a handshake AEAD operation was given: key, nonce and associated data
AeadInput(c) ==
    [key   |-> c.pre.cipher_state.secret_key,
     nonce |-> c.pre.cipher_state.nonce,
     ad    |-> c.pre.handshake_digest]

CallNonces == [i \in 1..Len(calls) |-> calls[i].pre.cipher_state.nonce]

\* mix_key on the state side s is in: nonce back to 0, digest untouched
MixKeyResets(s, input) ==
    /\ mix_key(SS(mach[s]), input).cipher_state.nonce = 0
    /\ mix_key(SS(mach[s]), input).handshake_digest = SS(mach[s]).handshake_digest
    /\ mix_key(SS(mach[s]), input).cipher_state.secret_key #
          SS(mach[s]).cipher_state.secret_key

ResponderReadActThree ==
    /\ last.op = "handshake"
    /\ last.side = "R"
    /\ last.to - last.from = ACT_THREE_SIZE
    /\ calls # <<>>

InitiatorReadActTwo ==
    /\ last.op = "handshake"
    /\ last.side = "I"
    /\ calls # <<>>

\* C29: between matching peers every handshake AEAD operation is given the same
\* key, nonce and associated data h by the side that encrypts and the side that
\* decrypts: act one's tag and act two's tag at nonce 0 of a freshly mixed key,
\* act three's static key at nonce 1 of act two's key, act three's last tag at
\* nonce 0 of the last mixed key. Every mix_key sets the handshake cipher's
\* nonce to 0 and leaves h as it was.
C29_SameKeyNonceAd ==
    /\ \A s \in Sides : MixKeyResets(s, ecdh(PubOf(OtherStatic), EphemeralGen(s)))
    /\ last.op = "act_one" => CallNonces = <<0>>
    /\ last.op = "act_two" =>
          /\ CallNonces = <<0, 0>>
          /\ AeadInput(calls[1]).key # AeadInput(calls[2]).key
    /\ (InitiatorReadActTwo /\ calls[1].ok) =>
          /\ CallNonces = <<0, 1, 0>>
          /\ AeadInput(calls[2]).key = AeadInput(calls[1]).key
          /\ calls[2].pre = calls[1].post
          /\ AeadInput(calls[3]).key # AeadInput(calls[2]).key
          /\ calls[2].post.cipher_state.nonce = 2
          /\ AeadInput(calls[3]).ad = calls[2].post.handshake_digest
    /\ (ResponderReadActThree /\ calls[1].ok) =>
          /\ CallNonces = <<1, 0>>
          /\ AeadInput(calls[2]).key # AeadInput(calls[1]).key
          /\ calls[1].post.cipher_state.nonce = 2
          /\ AeadInput(calls[2]).ad = calls[1].post.handshake_digest
    /\ ~WrongKey =>
          /\ last.op = "act_one" => calls = HonestGenOne.calls
          /\ last.op = "act_two" =>
                /\ AeadInput(calls[1]) = AeadInput(HonestGenOne.calls[1])
                /\ calls[2] = HonestGenTwo.calls[1]
          /\ (InitiatorReadActTwo /\ calls[1].ok) =>
                /\ AeadInput(calls[1]) = AeadInput(HonestGenTwo.calls[1])
                /\ <<calls[2], calls[3]>> = HonestGenThree.calls
          /\ (ResponderReadActThree /\ calls[1].ok) =>
                /\ AeadInput(calls[1]) = AeadInput(HonestGenThree.calls[1])
                /\ calls[2].ok =>
                      AeadInput(calls[2]) = AeadInput(HonestGenThree.calls[2])

C29_Witness ==
    /\ ResponderReadActThree
    /\ last.ok
    /\ ~WrongKey
    /\ CallNonces = <<1, 0>>
    /\ AeadInput(calls[1]) = AeadInput(HonestGenThree.calls[1])
    /\ AeadInput(calls[2]) = AeadInput(HonestGenThree.calls[2])
    /\ AeadInput(calls[1]).key = AeadInput(HonestGenTwo.calls[1]).key
    /\ AeadInput(calls[2]).ad # AeadInput(calls[1]).ad

BothCiphersEmpty(s) ==
    /\ mach[s].send_cipher = CipherState_empty
    /\ mach[s].recv_cipher = CipherState_empty

KeysInstalled(s) ==
    {mach[s].send_cipher, mach[s].recv_cipher} =
        {SplitCipher(mach[s], BSlice(SplitKeys(mach[s]), 0, 32)),
         SplitCipher(mach[s], BSlice(SplitKeys(mach[s]), 32, 64))}

\* C30: session keys are installed only by a successful handshake. While
\* handshake() has not returned, and after it has returned an error (the
\* stream's error on the write of act three included), send_cipher and
\* recv_cipher are in the state of construction (all-zero key, all-zero salt,
\* nonce 0); after it has returned Ok both hold keys derived from the final
\* chaining key.
C30_KeysOnlyOnSuccess ==
    \A s \in Sides :
        /\ pc[s] # "ok" => BothCiphersEmpty(s)
        /\ pc[s] = "ok" => KeysInstalled(s)

C30_Witness ==
    /\ last.op = "handshake"
    /\ last.side = "I"
    /\ ~last.ok
    /\ last.err = "Io"
    /\ pc["I"] = "err"
    /\ ~tampered
    /\ ~WrongKey
    /\ CallOps = <<"decrypt_and_hash", "encrypt_and_hash", "encrypt_and_hash">>
    /\ AllCallsOk
    /\ last.wto - last.wfrom = 1
    /\ KeysInstalled("I")
    /\ ~BothCiphersEmpty("I")
    /\ BothCiphersEmpty("R")

ActOps ==
    {"gen_act_one", "recv_act_one", "gen_act_two", "recv_act_two",
     "gen_act_three", "recv_act_three"}

FailedActKeepsState ==
    (nActs' = nActs + 1 /\ last'.op \in ActOps /\ ~last'.ok) =>
        mach'[last'.side].handshake_state = mach[last'.side].handshake_state

\* C31 as stated: an act handler that returns an error leaves the
\* HandshakeState as it was before the call (h, ck, the handshake cipher's key
\* and nonce, local_ephemeral, remote_ephemeral, remote_static).
C31_FailedActKeepsState == [][FailedActKeepsState]_vars

C31_Witness ==
    /\ nActs = 1
    /\ last.op = "recv_act_one"
    /\ last.side = "R"
    /\ ~last.ok
    /\ last.err = "Io"
    /\ Len(calls) = 1
    /\ ~calls[1].ok
    /\ mach["R"].handshake_state.remote_ephemeral = Some(PubOf(EphemeralGen("R")))
    /\ ~IsSome(HonestResponder.handshake_state.remote_ephemeral)
    /\ SS(mach["R"]).chaining_key # SS(HonestResponder).chaining_key
    /\ SS(mach["R"]).handshake_digest # SS(HonestResponder).handshake_digest
    /\ SS(mach["R"]).cipher_state.secret_key # Zeros(32)

ReadConsumed == last.to - last.from

\* C32: read_message reads the payload only after the 18-byte header has
\* verified: a call whose header fails has consumed exactly 18 bytes; a call
\* whose header verifies consumes exactly 18 + L + 16 bytes, the record of the
\* length L the header carries, at most 65551 bytes after the header, and stops
\* at the record's end, leaving every byte of a following record on the stream.
C32_ReadsOneRecord ==
    last.op = "read" =>
        /\ HeaderSize = 18
        /\ Len(calls) \in {1, 2}
        /\ calls[1].op = "decrypt"
        /\ ~calls[1].ok =>
              /\ ~last.ok
              /\ Len(calls) = 1
              /\ ReadConsumed = 18
        /\ calls[1].ok =>
              /\ Len(calls) = 2
              /\ IsSome(last.expect)
              /\ last.from = Unwrap(last.expect).from
              /\ last.to = Unwrap(last.expect).to
              /\ ReadConsumed = 18 + BLen(Unwrap(last.expect).p) + 16
              /\ ReadConsumed - 18 <= 65551
              /\ last.ok = calls[2].ok
              /\ last.ok => last.pt = Unwrap(last.expect).p
        /\ rOff[last.side] = last.to
        /\ (calls[1].ok /\ marks[last.side] # <<>>) =>
              /\ Head(marks[last.side]).from = last.to
              /\ BLen(wire[last.side]) >=
                    Head(marks[last.side]).to - Head(marks[last.side]).from

C32_Witness ==
    /\ last.op = "read"
    /\ last.ok
    /\ BLen(last.pt) = U16_MAX
    /\ ReadConsumed = 18 + 65551
    /\ Len(marks[last.side]) = 1
    /\ Head(marks[last.side]).from = last.to
    /\ BLen(wire[last.side]) = 18 + 1 + 16
    /\ nRead[last.side] = 1

\* C33: the CipherState of machine/mod.rs (initialize_key / rotate_key) and the
\* one of machine/cipher_state.rs (new / next), started from the same salt and
\* key and given the same encrypt and decrypt calls, hold the same key, salt
\* and nonce after every call; a call changes both or neither.
C33_SameCipherState ==
    /\ unit.a = unit.b
    /\ unit.pa = unit.pb
    /\ DOMAIN unit.a = {"nonce", "secret_key", "salt"}
    /\ (unit.op # "none" /\ unit.ok) => (unit.a # unit.pa /\ unit.b # unit.pb)
    /\ (unit.op # "none" /\ ~unit.ok) => (unit.a = unit.pa /\ unit.b = unit.pb)
    /\ unit.op = "none" =>
          unit.a = [nonce |-> 0, secret_key |-> unit.key0, salt |-> unit.salt0]

C33_Witness ==
    /\ unit.op = "decrypt"
    /\ unit.ok
    /\ unit.ops = KEY_ROTATION_INTERVAL
    /\ unit.pb.nonce = CS_KEY_ROTATION_INTERVAL - 1
    /\ unit.b.nonce = 0
    /\ unit.b.salt # unit.pb.salt
    /\ unit.b.secret_key # unit.pb.secret_key
    /\ unit.a = unit.b
    /\ unit.salt0 # unit.key0

OtherAd(ad) == CHOOSE x \in UnitAd : x # ad

OtherKey == Blob(<<"key", "other">>, 32)

OtherNonces(cs) == {(cs.nonce + 1) % KEY_ROTATION_INTERVAL,
                    (cs.nonce + KEY_ROTATION_INTERVAL - 1) % KEY_ROTATION_INTERVAL}

\* e: what encrypt(ad, pt) gave on a CipherState equal to cs (machine/mod.rs)
PairA(cs, ad, pt, e) ==
    /\ e.ok
    /\ BLen(e.ct) = BLen(pt)
    /\ decrypt(cs, ad, e.ct, e.tag).ok
    /\ decrypt(cs, ad, e.ct, e.tag).pt = pt
    /\ decrypt(cs, ad, e.ct, e.tag).cs = e.cs
    /\ \A n \in OtherNonces(cs) :
          ~decrypt([cs EXCEPT !.nonce = n], ad, e.ct, e.tag).ok
    /\ ~decrypt([cs EXCEPT !.secret_key = OtherKey], ad, e.ct, e.tag).ok
    /\ ~decrypt(cs, OtherAd(ad), e.ct, e.tag).ok

\* the same for the CipherState of machine/cipher_state.rs
PairB(cs, ad, pt, e) ==
    /\ e.ok
    /\ BLen(e.ct) = BLen(pt)
    /\ CipherState_decrypt(cs, ad, e.ct, e.tag).ok
    /\ CipherState_decrypt(cs, ad, e.ct, e.tag).pt = pt
    /\ CipherState_decrypt(cs, ad, e.ct, e.tag).cs = e.cs
    /\ \A n \in OtherNonces(cs) :
          ~CipherState_decrypt([cs EXCEPT !.nonce = n], ad, e.ct, e.tag).ok
    /\ ~CipherState_decrypt([cs EXCEPT !.secret_key = OtherKey], ad, e.ct, e.tag).ok
    /\ ~CipherState_decrypt(cs, OtherAd(ad), e.ct, e.tag).ok

\* C34: for every encrypt(ad, pt) = (ct, tag) on a CipherState, decrypt(ad, ct,
\* tag) on a peer CipherState with the same key, salt and nonce succeeds and
\* gives pt, and leaves the peer with the key, salt and nonce the encryptor has
\* after its call; a decrypt under another nonce, another key or another ad
\* fails. Both implementations.
C34_EncryptDecryptPair ==
    \A ad \in UnitAd, pt \in UnitPlain :
        /\ PairA(unit.a, ad, pt, encrypt(unit.a, ad, pt))
        /\ PairB(unit.b, ad, pt, CipherState_encrypt(unit.b, ad, pt))

C34_Witness ==
    /\ unit.a.nonce = KEY_ROTATION_INTERVAL - 1
    /\ unit.op = "encrypt"
    /\ unit.a.secret_key # OtherKey
    /\ PairA(unit.a, Blob(<<"ad">>, 32), Payload("x", 2),
             encrypt(unit.a, Blob(<<"ad">>, 32), Payload("x", 2)))
    /\ encrypt(unit.a, Blob(<<"ad">>, 32), Payload("x", 2)).cs.nonce = 0
    /\ encrypt(unit.a, Blob(<<"ad">>, 32), Payload("x", 2)).cs.salt # unit.a.salt

OutgoingOf(id) == {i \in 1..Len(conn.outgoing) : conn.outgoing[i].id = id}

\* dial and handshake of the connection asked for by command id have succeeded
Established(id) == \E i \in OutgoingOf(id) : conn.outgoing[i].st = "ready"

Yielded(id) == \E k \in 1..Len(conn.yielded) : conn.yielded[k] = id

\* C35 as stated: every Connect command delivered on the control stream whose
\* dial and handshake succeed leads to poll yielding that connection, the task
\* being polled only when it has been notified by a source it polled.
C35_ConnectEventuallyYielded ==
    \A id \in 1..MaxCommands : Established(id) ~> Yielded(id)

\* the command was accepted by a poll that returned NotReady; the connection is
\* established, and nothing the task polled holds it
C35_Witness ==
    /\ conn.outgoing # <<>>
    /\ Established(1)
    /\ ~Yielded(1)
    /\ ~conn.notified
    /\ ~conn.panicked
    /\ ~conn.repolled
    /\ ~conn.controlParked
    /\ ~conn.incomingParked
    /\ \A i \in 1..Len(conn.outgoing) : ~conn.outgoing[i].parked
    /\ conn.control = <<>>
    /\ conn.yielded = <<>>

\* C36 as stated: an outgoing connection is yielded once, a future that has
\* completed, with a connection or with an error, is not polled again, and
\* between polls the list of outgoing futures holds no completed future.
C36_CompletedFutureDropped ==
    /\ ~conn.repolled
    /\ \A i \in 1..Len(conn.outgoing) : ~Completed(conn.outgoing[i])
    /\ \A j, k \in 1..Len(conn.yielded) :
          (conn.yielded[j] = conn.yielded[k] /\ conn.yielded[j] # 0) => j = k

C36_Witness ==
    /\ conn.repolled
    /\ ~conn.panicked
    /\ ~conn.notified
    /\ Len(conn.outgoing) = 1
    /\ conn.outgoing[1].st = "done"
    /\ conn.yielded = <<0, 1>>
    /\ conn.controlParked

====
